---- MODULE Spec2Model ----
(***************************************************************************)
(* Model of the adaptive reliability middleware of tau2-enhanced: the      *)
(* context budget manager (ContextManagedLLMAgent), the retry coordinator  *)
(* (RetryManagedLLMAgent) and their composition (EnhancedLLMAgent).        *)
(*                                                                         *)
(* One call of generate_next_message is a sequence of steps that ends at   *)
(* every call of the downstream LLMAgent.generate_next_message; what the   *)
(* downstream call does (return, or raise some error) is the environment's *)
(* choice, fixed per turn by a script of outcomes as a mock's side_effect  *)
(* list does.                                                              *)
(*                                                                         *)
(* Text is modelled as tuples of one-character strings.  Message content   *)
(* is modelled by what the code observes of it: its length, the end        *)
(* position of the first occurrence of "error" and the earliest end        *)
(* position of one of "success", "completed", "done" (0: no occurrence).   *)
(* Thresholds are percentages, compression levels tenths and delays        *)
(* tenths of a second, so that all arithmetic is exact.  Token estimation  *)
(* follows the character heuristic (tokenizer = None).  Wall-clock fields  *)
(* (timestamp, total_duration, performance_impact) and bytes_saved are not *)
(* modelled.                                                               *)
(***************************************************************************)
EXTENDS Integers, Sequences, FiniteSets, TLC

(***************************************************************************)
(* Bounds of the model.                                                    *)
(***************************************************************************)
\* the number of generate_next_message turns of one agent instance
MaxOps == 2
\* the largest max_retries the agent is configured with
MaxRetries == 3

(***************************************************************************)
(* State.                                                                  *)
(***************************************************************************)
VARIABLES
    \* the agent instance: its class and its configuration
    agent,                  \* "context", "retry" or "enhanced"
    max_retries,
    retry_delay_base,       \* tenths of a second
    context_limit,
    warning_threshold,      \* percent
    critical_threshold,     \* percent
    min_context_reserve,
    \* the agent instance: its histories and metrics
    reduction_history,
    retry_sequences,
    combined_metrics,
    operation_counter,
    \* the call of generate_next_message in progress
    pc,                     \* "idle", "first_call", "attempt", "retry_call",
                            \* "returned", "raised"
    outcome,                \* the value returned or the error raised
    heap,                   \* the state objects: reference -> state.messages
    state,                  \* the local variable state
    arg,                    \* the state object the downstream call got
    attempt,                \* the loop variable of the retry loop
    original_error,
    retry_sequence,
    retry_attempt,
    context_reduced,
    retry_used,
    \* the environment of the call
    script,                 \* outcome of the i-th downstream call of the turn
    \* what an observer of the call records
    turns,                  \* calls of generate_next_message so far
    calls,                  \* the downstream calls of the turn, in order
    sleeps,                 \* the time.sleep calls of the turn, in order
    entry                   \* messages, histories and metrics at the call

config ==
    <<agent, max_retries, retry_delay_base, context_limit, warning_threshold,
      critical_threshold, min_context_reserve>>

vars ==
    <<agent, max_retries, retry_delay_base, context_limit, warning_threshold,
      critical_threshold, min_context_reserve, reduction_history,
      retry_sequences, combined_metrics, operation_counter, pc, outcome, heap,
      state, arg, attempt, original_error, retry_sequence, retry_attempt,
      context_reduced, retry_used, script, turns, calls, sleeps, entry>>


(***************************************************************************)
(* Text.                                                                   *)
(***************************************************************************)
\* str.lower() on one character
LowerChar(c) ==
    CASE 
      c = "A" -> "a"
      [] c = "B" -> "b"
      [] c = "C" -> "c"
      [] c = "D" -> "d"
      [] c = "E" -> "e"
      [] c = "F" -> "f"
      [] c = "G" -> "g"
      [] c = "H" -> "h"
      [] c = "I" -> "i"
      [] c = "J" -> "j"
      [] c = "K" -> "k"
      [] c = "L" -> "l"
      [] c = "M" -> "m"
      [] c = "N" -> "n"
      [] c = "O" -> "o"
      [] c = "P" -> "p"
      [] c = "Q" -> "q"
      [] c = "R" -> "r"
      [] c = "S" -> "s"
      [] c = "T" -> "t"
      [] c = "U" -> "u"
      [] c = "V" -> "v"
      [] c = "W" -> "w"
      [] c = "X" -> "x"
      [] c = "Y" -> "y"
      [] c = "Z" -> "z"
      [] OTHER -> c

\* str.lower()
Lower(s) == [i \in 1..Len(s) |-> LowerChar(s[i])]

\* s[i : i + len(p)] == p
OccursAt(p, s, i) ==
    /\ i + Len(p) - 1 <= Len(s)
    /\ \A j \in 1..Len(p) : s[i + j - 1] = p[j]

\* p in s
Contains(p, s) == \E i \in 1..(Len(s) + 1) : OccursAt(p, s, i)

\* re.search of a pattern lit1.*lit2.*...: the literals occur in this order
\* without overlapping, from position `from` on (no text here has a newline)
RECURSIVE SearchFrom(_, _, _)
SearchFrom(lits, s, from) ==
    IF lits = <<>> THEN TRUE
    ELSE \E i \in from..(Len(s) + 1) :
            /\ OccursAt(Head(lits), s, i)
            /\ SearchFrom(Tail(lits), s, i + Len(Head(lits)))

re_search(pattern, s) == SearchFrom(pattern, s, 1)

(***************************************************************************)
(* Errors.  An error is named; ErrorTable gives its type(e).__name__ and   *)
(* its str(e).                                                             *)
(***************************************************************************)
MsgMissingParam ==
    <<"M","i","s","s","i","n","g"," ","r","e","q","u","i","r","e","d"," ","p","a","r","a","m","e","t","e","r"," ","'","u","s","e","r","_","i","d","'">>
MsgShutdown ==
    <<"S","y","s","t","e","m"," ","s","h","u","t","d","o","w","n">>
MsgExpectedInt ==
    <<"E","x","p","e","c","t","e","d"," ","i","n","t",","," ","g","o","t"," ","s","t","r">>
MsgLogKwarg ==
    <<"E","x","e","c","u","t","i","o","n","L","o","g","g","e","r",".","l","o","g","_","c","o","n","t","e","x","t","_","r","e","d","u","c","t","i","o","n","(",")"," ","g","o","t"," ","a","n"," ","u","n","e","x","p","e","c","t","e","d"," ","k","e","y","w","o","r","d"," ","a","r","g","u","m","e","n","t"," ","'","r","e","d","u","c","t","i","o","n","_","s","t","r","a","t","e","g","y","'">>

\* messages of further errors a tool call can raise: one for each of the
\* remaining categories, two that match patterns of several categories, and
\* one that matches no pattern
MsgInvalidFormat ==
    <<"I","n","v","a","l","i","d"," ","f","o","r","m","a","t"," ","f","o","r"," ","f","i","e","l","d"," ","'","d","a","t","e","'">>
MsgOutOfRange ==
    <<"V","a","l","u","e"," ","1","2","0"," ","i","s"," ","o","u","t"," ","o","f"," ","r","a","n","g","e">>
MsgInvalidChoice ==
    <<"I","n","v","a","l","i","d"," ","c","h","o","i","c","e"," ","'","x","'",":"," ","m","u","s","t"," ","b","e"," ","o","n","e"," ","o","f"," ","a",","," ","b">>
MsgInvalidValueType ==
    <<"I","n","v","a","l","i","d"," ","v","a","l","u","e"," ","'","x","'",":"," ","e","x","p","e","c","t","e","d"," ","i","n","t",","," ","g","o","t"," ","s","t","r">>
MsgFormatAndMissing ==
    <<"F","o","r","m","a","t"," ","e","r","r","o","r",":"," ","m","i","s","s","i","n","g"," ","r","e","q","u","i","r","e","d"," ","p","a","r","a","m","e","t","e","r"," ","'","d","a","t","e","'">>
MsgInvalidDateFormat ==
    <<"I","n","v","a","l","i","d"," ","d","a","t","e"," ","f","o","r","m","a","t">>

\* the call of log_context_reduction with keywords the signature lacks
\* raises TypeError before the body runs
ErrorTable ==
    [ MissingParam |-> [type |-> "ValidationError", text |-> MsgMissingParam],
      Shutdown     |-> [type |-> "RuntimeError",    text |-> MsgShutdown],
      ExpectedInt  |-> [type |-> "TypeError",       text |-> MsgExpectedInt],
      LogKwarg     |-> [type |-> "TypeError",       text |-> MsgLogKwarg],
      InvalidFormat    |-> [type |-> "ValidationError", text |-> MsgInvalidFormat],
      OutOfRange       |-> [type |-> "ValueError",      text |-> MsgOutOfRange],
      InvalidChoice    |-> [type |-> "ValidationError", text |-> MsgInvalidChoice],
      InvalidValueType |-> [type |-> "TypeError",       text |-> MsgInvalidValueType],
      FormatAndMissing |-> [type |-> "ValidationError", text |-> MsgFormatAndMissing],
      InvalidDateFormat |-> [type |-> "ValidationError", text |-> MsgInvalidDateFormat] ]

\* the errors the downstream call raises in this model
DownstreamErrors == {"MissingParam", "Shutdown", "ExpectedInt"}

TypeName(e) == ErrorTable[e].type
Str(e) == ErrorTable[e].text

\* error_msg = str(error).lower(), for each error
error_msg == [e \in DOMAIN ErrorTable |-> Lower(Str(e))]

retryable_patterns ==
    << <<"v","a","l","i","d","a","t","i","o","n">>,
       <<"p","a","r","a","m","e","t","e","r">>,
       <<"a","r","g","u","m","e","n","t">>,
       <<"f","o","r","m","a","t">>,
       <<"t","y","p","e">>,
       <<"v","a","l","u","e">>,
       <<"r","a","n","g","e">>,
       <<"c","h","o","i","c","e">>,
       <<"r","e","q","u","i","r","e","d">> >>

retryable_types ==
    {"ValidationError", "ValueError", "TypeError", "KeyError", "AttributeError"}

\* not the code: a predicate that takes every error for retryable
EveryErrorRetryable(error) == TRUE

_is_retryable_error(error) ==
    \/ \E i \in 1..Len(retryable_patterns) :
          Contains(retryable_patterns[i], error_msg[error])
    \/ TypeName(error) \in retryable_types

\* self.error_patterns, in the insertion order of the dict; a pattern is the
\* tuple of its literals, which .* separates
error_patterns ==
    << [error_type |-> "type_mismatch", patterns |->
          <<<<<<"e","x","p","e","c","t","e","d"," ">>, <<" ","g","o","t"," ">>>>,
            <<<<"i","n","v","a","l","i","d"," ","t","y","p","e">>, <<"e","x","p","e","c","t","e","d">>>>,
            <<<<"t","y","p","e">>, <<"n","o","t"," ","s","u","p","p","o","r","t","e","d">>>>>>],
       [error_type |-> "missing_parameter", patterns |->
          <<<<<<"m","i","s","s","i","n","g"," ","r","e","q","u","i","r","e","d"," ","p","a","r","a","m","e","t","e","r">>>>,
            <<<<"r","e","q","u","i","r","e","d"," ","a","r","g","u","m","e","n","t">>, <<"m","i","s","s","i","n","g">>>>,
            <<<<"m","i","s","s","i","n","g">>, <<"r","e","q","u","i","r","e","d">>>>>>],
       [error_type |-> "invalid_format", patterns |->
          <<<<<<"i","n","v","a","l","i","d"," ","f","o","r","m","a","t">>>>,
            <<<<"f","o","r","m","a","t"," ","e","r","r","o","r">>>>,
            <<<<"m","a","l","f","o","r","m","e","d">>, <<"f","o","r","m","a","t">>>>,
            <<<<"i","n","c","o","r","r","e","c","t"," ","f","o","r","m","a","t">>>>>>],
       [error_type |-> "value_out_of_range", patterns |->
          <<<<<<"o","u","t"," ","o","f"," ","r","a","n","g","e">>>>,
            <<<<"i","n","v","a","l","i","d"," ","v","a","l","u","e">>>>,
            <<<<"v","a","l","u","e">>, <<"n","o","t"," ","a","l","l","o","w","e","d">>>>,
            <<<<"e","x","c","e","e","d","s">>, <<"l","i","m","i","t">>>>>>],
       [error_type |-> "enum_violation", patterns |->
          <<<<<<"n","o","t"," ","i","n"," ","a","l","l","o","w","e","d"," ","v","a","l","u","e","s">>>>,
            <<<<"i","n","v","a","l","i","d"," ","c","h","o","i","c","e">>>>,
            <<<<"m","u","s","t"," ","b","e"," ","o","n","e"," ","o","f">>>>,
            <<<<"u","n","k","n","o","w","n">>, <<"o","p","t","i","o","n">>>>>>] >>

_get_strategy_for_error_type(error_type) ==
    CASE error_type = "type_mismatch"      -> "type_correction"
      [] error_type = "missing_parameter"  -> "parameter_completion"
      [] error_type = "invalid_format"     -> "format_correction"
      [] error_type = "value_out_of_range" -> "value_adjustment"
      [] error_type = "enum_violation"     -> "enum_correction"
      [] OTHER                             -> "generic_simplification"

\* the categories one of whose patterns matches, by position in error_patterns
MatchingCategories(error) ==
    { k \in 1..Len(error_patterns) :
        \E p \in 1..Len(error_patterns[k].patterns) :
            re_search(error_patterns[k].patterns[p], error_msg[error]) }

\* not the code: a classification in which the last matching category wins
LastMatchingCategory(error) ==
    IF MatchingCategories(error) = {} THEN "generic_simplification"
    ELSE LET last == CHOOSE k \in MatchingCategories(error) :
                         \A j \in MatchingCategories(error) : k >= j
         IN  _get_strategy_for_error_type(error_patterns[last].error_type)

_determine_recovery_strategy(error) ==
    IF MatchingCategories(error) = {} THEN "generic_simplification"
    ELSE LET first == CHOOSE k \in MatchingCategories(error) :
                          \A j \in MatchingCategories(error) : k <= j
         IN  _get_strategy_for_error_type(error_patterns[first].error_type)

\* the classification and the strategy of each error, computed once
RetryableErrors == { e \in DOMAIN ErrorTable : _is_retryable_error(e) }

RecoveryStrategies ==
    [e \in DOMAIN ErrorTable |-> _determine_recovery_strategy(e)]

(***************************************************************************)
(* Messages.  A message object is [oid, role, len, err, succ, tc]: oid is  *)
(* the identity of the object, len = len(content) (0 for no content), err  *)
(* and succ the keyword positions described above and tc the characters of *)
(* str(tool_call.arguments) over its tool calls.                           *)
(***************************************************************************)
Message(oid, role, len, err, succ, tc) ==
    [oid |-> oid, role |-> role, len |-> len, err |-> err, succ |-> succ, tc |-> tc]

\* isinstance(msg, SystemMessage)
IsSystemMessage(msg) == msg.role = "system"
NotSystemMessage(msg) == msg.role # "system"

\* 'error' in content.lower()
HasError(msg) == msg.err # 0
\* any(keyword in content.lower() for keyword in ['success', 'completed', 'done'])
HasSuccess(msg) == msg.succ # 0

\* len(str(n)) for n >= 0
RECURSIVE Digits(_)
Digits(n) == IF n < 10 THEN 1 ELSE 1 + Digits(n \div 10)

RECURSIVE TotalChars(_)
TotalChars(messages) ==
    IF messages = <<>> THEN 0
    ELSE Head(messages).len + Head(messages).tc + TotalChars(Tail(messages))

RECURSIVE ContentLength(_)
ContentLength(messages) ==
    IF messages = <<>> THEN 0
    ELSE Head(messages).len + ContentLength(Tail(messages))

\* not the code: an estimate that takes the characters of the tool call
\* arguments off the content instead of adding them
EstimateWithoutToolCalls(messages) ==
    ((2 * ContentLength(messages) - TotalChars(messages)) \div 4)
        + Len(messages) * 10

_approximate_estimate(messages) ==
    (TotalChars(messages) \div 4) + Len(messages) * 10

\* self.tokenizer is None
estimate_tokens(messages) == _approximate_estimate(messages)

\* TokenUsageStats; utilization is current_tokens / limit_tokens and the
\* thresholds are percentages
TokenUsageStats(current_tokens, limit_tokens, warning, critical) ==
    [current_tokens |-> current_tokens, limit_tokens |-> limit_tokens,
     warning_threshold |-> warning, critical_threshold |-> critical]

\* utilization >= warning_threshold
is_warning(stats) ==
    stats.current_tokens * 100 >= stats.warning_threshold * stats.limit_tokens

\* utilization >= critical_threshold
is_critical(stats) ==
    stats.current_tokens * 100 >= stats.critical_threshold * stats.limit_tokens

_is_verbose_message(message) == message.len > 1000

\* not the code: a compression that returns the message itself whenever the
\* cut content with its marker would not be shorter
CompressNeverGrows(message, compression_level, newOid) ==
    LET marked == ((message.len * compression_level) \div 10) + 20
    IN  IF message.len <= marked THEN message
        ELSE [message EXCEPT !.oid = newOid, !.len = marked]

\* compression_level is in tenths; the copy made of a compressed message is
\* the object newOid
_compress_message_content(message, compression_level, newOid) ==
    IF message.len = 0 THEN message
    ELSE LET target_length == (message.len * compression_level) \div 10
             half == target_length \div 2
         IN  IF message.len <= target_length THEN message
             ELSE IF HasError(message) THEN
                 \* original_content[:target_length] + " [error details truncated]"
                 [message EXCEPT
                    !.oid = newOid,
                    !.len = target_length + 26,
                    !.err = IF message.err <= target_length
                            THEN message.err ELSE target_length + 7,
                    !.succ = IF message.succ <= target_length
                             THEN message.succ ELSE 0]
             ELSE IF HasSuccess(message) THEN
                 \* original_content[:target_length//2]
                 \*     + " [operation successful, details truncated]"
                 [message EXCEPT
                    !.oid = newOid,
                    !.len = half + 42,
                    !.succ = IF message.succ <= half
                             THEN message.succ ELSE half + 19]
             ELSE
                 \* original_content[:target_length] + " [content truncated]"
                 [message EXCEPT !.oid = newOid, !.len = target_length + 20]

Min(a, b) == IF a <= b THEN a ELSE b

\* not the code: an emergency pass that inserts its summary note whether or
\* not it dropped a message
EmergencyAlwaysSummarises(messages, base) ==
    LET other_messages == SelectSeq(messages, NotSystemMessage)
        keep_recent == Min(5, Len(other_messages))
        recent_messages ==
            SubSeq(other_messages, Len(other_messages) - keep_recent + 1,
                   Len(other_messages))
    IN  SelectSeq(messages, IsSystemMessage)
        \o << Message(base + Len(messages) + 1, "system", 129, 0, 0, 0) >>
        \o [i \in 1..Len(recent_messages) |->
                _compress_message_content(recent_messages[i], 3, base + i)]

\* the new objects of a reduction of n messages are base + 1 .. base + n + 1
_emergency_context_reduction(messages, base) ==
    LET system_messages == SelectSeq(messages, IsSystemMessage)
        other_messages == SelectSeq(messages, NotSystemMessage)
        keep_recent == Min(5, Len(other_messages))
        recent_messages ==
            SubSeq(other_messages, Len(other_messages) - keep_recent + 1,
                   Len(other_messages))
        compressed_messages ==
            [i \in 1..Len(recent_messages) |->
                _compress_message_content(recent_messages[i], 3, base + i)]
        dropped_count == Len(other_messages) - keep_recent
        \* "Previous conversation summary: {dropped_count} messages were
        \* compressed due to context limit. Recent {keep_recent} messages
        \* retained for immediate context."
        summary_msg ==
            Message(base + Len(messages) + 1, "system",
                    127 + Digits(dropped_count) + Digits(keep_recent), 0, 0, 0)
    IN  IF Len(other_messages) > keep_recent
        THEN system_messages \o <<summary_msg>> \o compressed_messages
        ELSE system_messages \o compressed_messages

\* not the code: a scan that keeps no message
ScanKeepsNothing(other_messages, i, kept_messages, token_budget, base) == <<>>

\* the loop over reversed(other_messages), at other_messages[i]
RECURSIVE ModerateScan(_, _, _, _, _)
ModerateScan(other_messages, i, kept_messages, token_budget, base) ==
    IF i = 0 THEN kept_messages
    ELSE
      LET msg == other_messages[i]
          msg_tokens == estimate_tokens(<<msg>>)
          compressed_msg == _compress_message_content(msg, 6, base + i)
          compressed_tokens == estimate_tokens(<<compressed_msg>>)
      IN  IF msg_tokens > token_budget /\ token_budget > 100 THEN
              IF compressed_tokens <= token_budget
              THEN ModerateScan(other_messages, i - 1,
                                <<compressed_msg>> \o kept_messages,
                                token_budget - compressed_tokens, base)
              ELSE kept_messages
          ELSE IF msg_tokens <= token_budget THEN
              ModerateScan(other_messages, i - 1, <<msg>> \o kept_messages,
                           token_budget - msg_tokens, base)
          ELSE kept_messages

_moderate_context_reduction(messages, base) ==
    LET system_messages == SelectSeq(messages, IsSystemMessage)
        other_messages == SelectSeq(messages, NotSystemMessage)
        system_tokens == estimate_tokens(system_messages)
        available_tokens == context_limit - system_tokens - min_context_reserve
        kept_messages ==
            ModerateScan(other_messages, Len(other_messages), <<>>,
                         available_tokens, base)
        dropped_count == Len(other_messages) - Len(kept_messages)
        \* "Context optimized: {dropped_count} earlier messages compressed
        \* to maintain recent conversation context."
        summary_msg ==
            Message(base + Len(messages) + 1, "system",
                    88 + Digits(dropped_count), 0, 0, 0)
    IN  IF Len(kept_messages) < Len(other_messages)
        THEN system_messages \o <<summary_msg>> \o kept_messages
        ELSE system_messages \o kept_messages

_preventive_context_reduction(messages, base) ==
    [i \in 1..Len(messages) |->
        IF _is_verbose_message(messages[i])
        THEN _compress_message_content(messages[i], 8, base + i)
        ELSE messages[i]]

\* a score is the fraction num / den;
\* 0.3 * message_preservation + 0.7 * content_preservation
_calculate_information_preservation(original_messages, reduced_messages) ==
    LET message_preservation ==
            IF Len(original_messages) > 0
            THEN [num |-> Len(reduced_messages), den |-> Len(original_messages)]
            ELSE [num |-> 1, den |-> 1]
        original_content_length == ContentLength(original_messages)
        reduced_content_length == ContentLength(reduced_messages)
        content_preservation ==
            IF original_content_length > 0
            THEN [num |-> reduced_content_length, den |-> original_content_length]
            ELSE [num |-> 1, den |-> 1]
    IN  [num |-> 3 * message_preservation.num * content_preservation.den
                 + 7 * content_preservation.num * message_preservation.den,
         den |-> 10 * message_preservation.den * content_preservation.den]

\* not the code: a manager that knows the moderate strategy alone
AlwaysModerate(token_stats) == "moderate_reduction"

\* the strategy _apply_context_reduction chooses
ReductionStrategy(token_stats) ==
    IF is_critical(token_stats) THEN "emergency_reduction"
    ELSE IF is_warning(token_stats) THEN "moderate_reduction"
    ELSE "preventive_reduction"

\* not the code: a dispatch that knows the preventive pass alone
AlwaysPreventive(original_messages, strategy, base) ==
    _preventive_context_reduction(original_messages, base)

ReducedMessages(original_messages, strategy, base) ==
    CASE strategy = "emergency_reduction" ->
            _emergency_context_reduction(original_messages, base)
      [] strategy = "moderate_reduction" ->
            _moderate_context_reduction(original_messages, base)
      [] OTHER ->
            _preventive_context_reduction(original_messages, base)

\* ContextReductionResult
ReductionResult(original_messages, reduced_messages, strategy) ==
    [original_token_count |-> estimate_tokens(original_messages),
     reduced_token_count |-> estimate_tokens(reduced_messages),
     original_message_count |-> Len(original_messages),
     reduced_message_count |-> Len(reduced_messages),
     reduction_strategy |-> strategy,
     information_preserved |->
        _calculate_information_preservation(original_messages, reduced_messages),
     messages_dropped |-> Len(original_messages) - Len(reduced_messages)]

(***************************************************************************)
(* The logger.  A call with keyword arguments binds iff every keyword is a *)
(* parameter of the method and every parameter without default is given;   *)
(* otherwise the call raises TypeError.                                    *)
(***************************************************************************)
log_context_reduction_params ==
    {"original_tokens", "reduced_tokens", "strategy_used", "trigger_reason",
     "warnings", "context_type"}

log_context_reduction_required ==
    {"original_tokens", "reduced_tokens", "strategy_used"}

log_context_reduction(keywords) ==
    /\ keywords \subseteq log_context_reduction_params
    /\ log_context_reduction_required \subseteq keywords

\* the keywords of the calls in ContextManagedLLMAgent
ContextLoggerKeywords ==
    {"original_tokens", "reduced_tokens", "strategy_used", "trigger_reason"}

\* the keywords of the call in RetryManagedLLMAgent._handle_retry_scenario
RetryLoggerKeywords ==
    {"original_tokens", "reduced_tokens", "reduction_strategy",
     "information_preserved", "performance_impact"}

\* the keywords of the call in EnhancedLLMAgent.generate_next_message
EnhancedLoggerKeywords ==
    {"original_tokens", "reduced_tokens", "reduction_strategy",
     "information_preserved", "performance_impact"}

(***************************************************************************)
(* Guidance messages.                                                      *)
(***************************************************************************)
GuidanceTemplates ==
    {"parameter_completion", "type_correction", "format_correction",
     "value_adjustment", "enum_correction", "generic_simplification"}

\* not the code: a lookup that gives a conservative strategy the template of
\* its category
TemplateOfCategory(strategy) ==
    CASE strategy \in GuidanceTemplates -> strategy
      [] strategy = "minimal_parameter_completion"  -> "parameter_completion"
      [] strategy = "simple_type_correction"        -> "type_correction"
      [] strategy = "basic_format_correction"       -> "format_correction"
      [] strategy = "conservative_value_adjustment" -> "value_adjustment"
      [] strategy = "direct_enum_correction"        -> "enum_correction"
      [] OTHER                                      -> "generic_simplification"

\* guidance_templates.get(strategy, guidance_templates['generic_simplification'])
TemplateOf(strategy) ==
    IF strategy \in GuidanceTemplates THEN strategy ELSE "generic_simplification"

\* len of the stripped template without {attempt} and {error_msg}
TemplateLen(template) ==
    CASE template = "parameter_completion"   -> 341
      [] template = "type_correction"        -> 336
      [] template = "format_correction"      -> 366
      [] template = "value_adjustment"       -> 311
      [] template = "enum_correction"        -> 318
      [] template = "generic_simplification" -> 286

\* end of "Error" in the first line of the template, without {attempt}
TemplateErrEnd(template) ==
    CASE template = "parameter_completion"   -> 28
      [] template = "type_correction"        -> 23
      [] template = "format_correction"      -> 25
      [] template = "value_adjustment"       -> 24
      [] template = "enum_correction"        -> 25
      [] template = "generic_simplification" -> 26

\* characters of the template before {error_msg}, without {attempt}
TemplatePrefix(template) ==
    CASE template = "parameter_completion"   -> 105
      [] template = "type_correction"        -> 98
      [] template = "format_correction"      -> 101
      [] template = "value_adjustment"       -> 98
      [] template = "enum_correction"        -> 100
      [] template = "generic_simplification" -> 68

success_keywords ==
    << <<"s","u","c","c","e","s","s">>,
       <<"c","o","m","p","l","e","t","e","d">>,
       <<"d","o","n","e">> >>

\* the earliest end of an occurrence of a success keyword in s, 0 if none
SuccessEnd(s) ==
    LET ends == { p[1] + Len(success_keywords[p[2]]) - 1 :
                    p \in { q \in (1..Len(s)) \X (1..3) :
                              OccursAt(success_keywords[q[2]], s, q[1]) } }
    IN  IF ends = {} THEN 0
        ELSE CHOOSE e \in ends : \A f \in ends : e <= f

\* where str(error) reads as a success, for each error
ErrorSuccessEnd == [e \in DOMAIN ErrorTable |-> SuccessEnd(error_msg[e])]

\* SystemMessage(role="system", content=guidance.strip()); attempt_number is 1-based
_create_retry_guidance_message(error, strategy, attempt_number, newOid) ==
    LET template == TemplateOf(strategy)
        succ == ErrorSuccessEnd[error]
    IN  Message(newOid, "system",
                TemplateLen(template) + Digits(attempt_number) + Len(Str(error)),
                TemplateErrEnd(template) + Digits(attempt_number),
                IF succ = 0 THEN 0
                ELSE TemplatePrefix(template) + Digits(attempt_number) + succ,
                0)

\* base_guidance.content = (content + NOTE).strip(): 228 more characters
_create_enhanced_retry_guidance_message(error, strategy, attempt_number, context_was_reduced, newOid) ==
    LET base_guidance ==
            _create_retry_guidance_message(error, strategy, attempt_number, newOid)
    IN  IF context_was_reduced
        THEN [base_guidance EXCEPT !.len = @ + 228]
        ELSE base_guidance

(***************************************************************************)
(* The heap of conversation state objects.  heap[r] is state.messages of   *)
(* the state object r; the caller's state object is CallerState.           *)
(***************************************************************************)
CallerState == 1

Max(S) == IF S = {} THEN 0 ELSE CHOOSE x \in S : \A y \in S : y <= x

\* the objects base + 1, base + 2, ... are messages the heap does not hold
OidBase(h) ==
    Max(UNION { { h[r][i].oid : i \in 1..Len(h[r]) } : r \in DOMAIN h })

NewRef(h) == CHOOSE r \in 1..(Cardinality(DOMAIN h) + 1) : r \notin DOMAIN h

\* not the code: a copy that is the object itself
AliasInsteadOfCopy(h, ref) == [ref |-> ref, heap |-> h]

\* copy.deepcopy(state): a new state object whose messages are new objects
deepcopy(h, ref) ==
    [ref |-> NewRef(h),
     heap |-> (NewRef(h) :> [i \in 1..Len(h[ref]) |->
                                [h[ref][i] EXCEPT !.oid = OidBase(h) + i]]) @@ h]

\* state.messages = messages
SetMessages(h, ref, messages) == [h EXCEPT ![ref] = messages]

\* the state objects no variable of the call refers to any more are dropped
Collect(h, live) == [r \in (DOMAIN h) \cap live |-> h[r]]

_analyze_token_usage(messages) ==
    TokenUsageStats(estimate_tokens(messages), context_limit,
                    warning_threshold, critical_threshold)

\* if token_stats.is_warning or token_stats.current_tokens > self.context_limit
NeedsReduction(token_stats) ==
    is_warning(token_stats) \/ token_stats.current_tokens > context_limit

\* the reduced state object, the heap that holds it, the result recorded
_apply_context_reduction(h, ref, token_stats) ==
    LET original_messages == h[ref]
        strategy == ReductionStrategy(token_stats)
        reduced_messages ==
            ReducedMessages(original_messages, strategy, OidBase(h))
        modified_state == deepcopy(h, ref)
    IN  [ref |-> modified_state.ref,
         heap |-> SetMessages(modified_state.heap, modified_state.ref,
                              reduced_messages),
         result |-> ReductionResult(original_messages, reduced_messages, strategy)]

(***************************************************************************)
(* The retry coordinator.                                                  *)
(***************************************************************************)
RetrySequence(tool_name) ==
    [tool_name |-> tool_name, attempts |-> <<>>, final_success |-> FALSE,
     recovery_strategies_used |-> <<>>]

\* error_message holds the name of the error whose str() it is
RetryAttempt(attempt_number, error, recovery_strategy) ==
    [attempt_number |-> attempt_number, error_type |-> TypeName(error),
     error_message |-> error, recovery_strategy |-> recovery_strategy,
     success |-> FALSE]

NoAttempt ==
    [attempt_number |-> 0, error_type |-> "-", error_message |-> "-",
     recovery_strategy |-> "-", success |-> FALSE]

\* for attempt in range(self.max_retries)
InRange(i) == i < max_retries

\* if attempt < self.max_retries - 1
NotFinalAttempt(i) == i < max_retries - 1

\* not the code: a backoff that does not grow
ConstantDelay(i) == retry_delay_base

\* delay = self.retry_delay_base * (2 ** attempt)
BackoffDelay(i) == retry_delay_base * (2 ^ i)

\* not the code: a coordinator that records each attempt twice
AppendAttemptTwice(seq, ra) ==
    [seq EXCEPT !.attempts = Append(Append(@, ra), ra)]

\* retry_sequence.attempts.append(retry_attempt)
AppendAttempt(seq, ra) == [seq EXCEPT !.attempts = Append(@, ra)]

\* not the code: a recovery that works on the state object it is given
RecoverInPlace(h, ref) == [ref |-> ref, heap |-> h]

\* every strategy handler returns the copy as it is
_apply_recovery_strategy(h, ref) == deepcopy(h, ref)

_apply_light_context_reduction_for_retry(h, ref) ==
    LET compressed_messages ==
            [i \in 1..Len(h[ref]) |->
                IF _is_verbose_message(h[ref][i])
                THEN _compress_message_content(h[ref][i], 6, OidBase(h) + i)
                ELSE h[ref][i]]
        modified_state == deepcopy(h, ref)
    IN  [ref |-> modified_state.ref,
         heap |-> SetMessages(modified_state.heap, modified_state.ref,
                              compressed_messages)]

_apply_enhanced_recovery_strategy(h, ref) ==
    LET modified_state == _apply_recovery_strategy(h, ref)
    IN  IF estimate_tokens(modified_state.heap[modified_state.ref]) > context_limit
        THEN _apply_light_context_reduction_for_retry(modified_state.heap,
                                                      modified_state.ref)
        ELSE modified_state

conservative_strategies(base_strategy) ==
    CASE base_strategy = "parameter_completion" -> "minimal_parameter_completion"
      [] base_strategy = "type_correction"      -> "simple_type_correction"
      [] base_strategy = "format_correction"    -> "basic_format_correction"
      [] base_strategy = "value_adjustment"     -> "conservative_value_adjustment"
      [] base_strategy = "enum_correction"      -> "direct_enum_correction"
      [] OTHER                                  -> "ultra_minimal_guidance"

\* not the code: a selector that turns conservative from 0.8 on
ConservativeFromEighty(error, messages) ==
    IF estimate_tokens(messages) * 10 >= 8 * context_limit
    THEN conservative_strategies(RecoveryStrategies[error])
    ELSE RecoveryStrategies[error]

\* token_pressure = current_tokens / self.context_limit > 0.8
_determine_enhanced_recovery_strategy(error, messages) ==
    LET base_strategy == RecoveryStrategies[error]
        current_tokens == estimate_tokens(messages)
    IN  IF current_tokens * 10 > 8 * context_limit
        THEN conservative_strategies(base_strategy)
        ELSE base_strategy

\* modified_state.messages.append(retry_guidance)
AppendMessage(h, ref, message) == [h EXCEPT ![ref] = Append(@, message)]

\* the loop body of _handle_retry_scenario up to the logger call: the
\* strategy, and the state object the downstream call is to get
RetryPrepare(h, ref, error, i) ==
    LET recovery_strategy == RecoveryStrategies[error]
        modified_state == _apply_recovery_strategy(h, ref)
        retry_guidance ==
            _create_retry_guidance_message(error, recovery_strategy, i + 1,
                                           OidBase(modified_state.heap) + 1)
    IN  [strategy |-> recovery_strategy,
         ref |-> modified_state.ref,
         heap |-> AppendMessage(modified_state.heap, modified_state.ref,
                                retry_guidance)]

\* the loop body of _handle_enhanced_retry_scenario up to the downstream call
EnhancedPrepare(h, ref, error, i) ==
    LET recovery_strategy == _determine_enhanced_recovery_strategy(error, h[ref])
        modified_state == _apply_enhanced_recovery_strategy(h, ref)
        retry_guidance ==
            _create_enhanced_retry_guidance_message(
                error, recovery_strategy, i + 1, TRUE,
                OidBase(modified_state.heap) + 1)
        with_guidance ==
            AppendMessage(modified_state.heap, modified_state.ref, retry_guidance)
        total_tokens == estimate_tokens(with_guidance[modified_state.ref])
    IN  \* if total_tokens > self.context_limit * 0.9
        IF total_tokens * 10 > context_limit * 9
        THEN [strategy |-> recovery_strategy] @@
             _apply_light_context_reduction_for_retry(with_guidance,
                                                      modified_state.ref)
        ELSE [strategy |-> recovery_strategy, ref |-> modified_state.ref,
              heap |-> with_guidance]

(***************************************************************************)
(* The combined metrics of EnhancedLLMAgent.  retry_success_rate is the    *)
(* fraction num / den.                                                     *)
(***************************************************************************)
EnhancedPerformanceMetrics ==
    [context_reductions |-> 0, total_tokens_saved |-> 0,
     retry_sequences |-> 0, successful_retries |-> 0,
     retry_success_rate |-> [num |-> 0, den |-> 1],
     total_operations |-> 0, operations_with_context_reduction |-> 0,
     operations_with_retry |-> 0, operations_with_both |-> 0]

Last(s) == s[Len(s)]

_update_combined_metrics(m, reduced, retried, history, sequences) ==
    LET m1 == [m EXCEPT !.total_operations = @ + 1]
        m2 == IF reduced /\ retried
              THEN [m1 EXCEPT !.operations_with_both = @ + 1] ELSE m1
        m3 == IF reduced /\ history # <<>>
              THEN [m2 EXCEPT
                      !.context_reductions = @ + 1,
                      !.total_tokens_saved =
                          @ + Last(history).original_token_count
                            - Last(history).reduced_token_count]
              ELSE m2
        m4 == IF retried
              THEN [m3 EXCEPT !.retry_sequences = @ + 1] ELSE m3
        m5 == IF retried /\ sequences # <<>> /\ Last(sequences).final_success
              THEN [m4 EXCEPT !.successful_retries = @ + 1] ELSE m4
    IN  IF m5.retry_sequences > 0
        THEN [m5 EXCEPT !.retry_success_rate =
                           [num |-> m5.successful_retries,
                            den |-> m5.retry_sequences]]
        ELSE m5

(***************************************************************************)
(* Inputs.                                                                 *)
(***************************************************************************)
\* 11 tokens
InputShort ==
    << Message(1, "system", 5, 0, 0, 0) >>

\* 880 tokens: warning tier at 1000 tokens with thresholds 0.8 / 0.95
InputWarning ==
    << Message(1, "system", 400, 0, 0, 0),
       Message(2, "user", 1600, 30, 0, 0),
       Message(3, "assistant", 1400, 0, 0, 0) >>

\* 1115 tokens: over the limit of 1000 tokens
InputCritical ==
    << Message(1, "system", 300, 0, 0, 0),
       Message(2, "user", 700, 0, 0, 0),
       Message(3, "assistant", 0, 0, 0, 240),
       Message(4, "tool", 900, 0, 12, 0),
       Message(5, "assistant", 600, 0, 0, 0),
       Message(6, "user", 500, 0, 0, 0),
       Message(7, "tool", 800, 20, 0, 0),
       Message(8, "assistant", 100, 0, 90, 0) >>

MessageInputs == {InputShort, InputWarning, InputCritical}

\* warning / critical thresholds set_reduction_thresholds is called with
ThresholdPairs == {<<80, 95>>, <<95, 80>>}

\* the downstream call raises first on its first call and rest on the later
\* ones, and returns from call okAt on (0: never)
MkScript(n, first, rest, okAt) ==
    [i \in 1..n |->
        IF okAt # 0 /\ i >= okAt THEN "ok"
        ELSE IF i = 1 THEN first ELSE rest]

\* the error of the first call and the error of the later calls
ErrorPairs ==
    { <<"MissingParam", "MissingParam">>, <<"MissingParam", "Shutdown">>,
      <<"ExpectedInt", "MissingParam">>, <<"Shutdown", "Shutdown">> }

Scripts(n) ==
    { MkScript(n, e[1], e[2], okAt) : e \in ErrorPairs, okAt \in 0..n }

\* the downstream calls one turn can make
MaxCalls == IF agent = "context" THEN 1 ELSE 1 + max_retries

(***************************************************************************)
(* Steps of generate_next_message.                                         *)
(***************************************************************************)
Init ==
    /\ agent \in {"context", "retry", "enhanced"}
    /\ max_retries \in (IF agent = "context" THEN {3} ELSE 0..MaxRetries)
    /\ retry_delay_base = 5
    /\ context_limit = 1000
    /\ \E p \in (IF agent = "retry" THEN {<<80, 95>>} ELSE ThresholdPairs) :
          /\ warning_threshold = p[1]
          /\ critical_threshold = p[2]
    /\ min_context_reserve = 500
    /\ reduction_history = <<>>
    /\ retry_sequences = <<>>
    /\ combined_metrics = EnhancedPerformanceMetrics
    /\ operation_counter = 0
    /\ pc = "idle"
    /\ outcome = "-"
    /\ heap = (CallerState :> <<>>)
    /\ state = CallerState
    /\ arg = CallerState
    /\ attempt = 0
    /\ original_error = "-"
    /\ retry_sequence = RetrySequence("-")
    /\ retry_attempt = NoAttempt
    /\ context_reduced = FALSE
    /\ retry_used = FALSE
    /\ script = <<>>
    /\ turns = 0
    /\ calls = <<>>
    /\ sleeps = <<>>
    /\ entry = [messages |-> <<>>, reduction_history |-> <<>>,
                retry_sequences |-> <<>>,
                combined_metrics |-> EnhancedPerformanceMetrics,
                operation_counter |-> 0]

\* the downstream call is made with the state object ref
Invoke(cs, sc, h, st, ref, at) ==
    /\ pc' = at
    /\ outcome' = "-"
    /\ heap' = Collect(h, {CallerState, st, ref})
    /\ state' = st
    /\ arg' = ref
    /\ script' = sc
    /\ calls' = Append(cs, [ref |-> ref, messages |-> h[ref], result |-> "-"])

\* generate_next_message returns value (how = "returned") or raises it
Finish(cs, how, value, h) ==
    /\ pc' = how
    /\ outcome' = value
    /\ heap' = Collect(h, {CallerState})
    /\ state' = CallerState
    /\ arg' = CallerState
    /\ script' = <<>>
    /\ calls' = cs

BeginTurn(messages) ==
    /\ pc \in {"idle", "returned", "raised"}
    /\ turns < MaxOps
    /\ turns' = turns + 1
    /\ entry' = [messages |-> messages,
                 reduction_history |-> reduction_history,
                 retry_sequences |-> retry_sequences,
                 combined_metrics |-> combined_metrics,
                 operation_counter |-> operation_counter]
    /\ sleeps' = <<>>
    /\ attempt' = 0
    /\ original_error' = "-"
    /\ retry_sequence' = RetrySequence("-")
    /\ retry_attempt' = NoAttempt
    /\ retry_used' = FALSE
    /\ UNCHANGED config

\* ContextManagedLLMAgent.generate_next_message up to the downstream call
ContextGenerate(messages, sc) ==
    /\ agent = "context"
    /\ BeginTurn(messages)
    /\ UNCHANGED <<retry_sequences, combined_metrics, operation_counter,
                   context_reduced>>
    /\ LET h == (CallerState :> messages)
           token_stats == _analyze_token_usage(messages)
           reduced == _apply_context_reduction(h, CallerState, token_stats)
       IN  IF ~log_context_reduction(ContextLoggerKeywords)
           THEN /\ reduction_history' = reduction_history
                /\ Finish(<<>>, "raised", "LogKwarg", h)
           ELSE IF NeedsReduction(token_stats)
           THEN /\ reduction_history' =
                       Append(reduction_history, reduced.result)
                /\ Invoke(<<>>, sc, reduced.heap, CallerState, reduced.ref,
                          "first_call")
           ELSE /\ reduction_history' = reduction_history
                /\ Invoke(<<>>, sc, h, CallerState, CallerState, "first_call")

\* RetryManagedLLMAgent.generate_next_message up to the downstream call
RetryGenerate(messages, sc) ==
    /\ agent = "retry"
    /\ BeginTurn(messages)
    /\ UNCHANGED <<reduction_history, retry_sequences, combined_metrics,
                   operation_counter, context_reduced>>
    /\ Invoke(<<>>, sc, (CallerState :> messages), CallerState, CallerState,
              "first_call")

\* EnhancedLLMAgent.generate_next_message up to the downstream call (Step 1)
EnhancedGenerate(messages, sc) ==
    /\ agent = "enhanced"
    /\ BeginTurn(messages)
    /\ operation_counter' = operation_counter + 1
    /\ UNCHANGED retry_sequences
    /\ LET h == (CallerState :> messages)
           token_stats == _analyze_token_usage(messages)
           reduced == _apply_context_reduction(h, CallerState, token_stats)
       IN  IF NeedsReduction(token_stats)
           THEN /\ reduction_history' =
                       Append(reduction_history, reduced.result)
                /\ context_reduced' = TRUE
                /\ combined_metrics' =
                       [combined_metrics EXCEPT
                          !.operations_with_context_reduction = @ + 1]
                /\ IF log_context_reduction(EnhancedLoggerKeywords)
                   THEN Invoke(<<>>, sc, reduced.heap, reduced.ref,
                               reduced.ref, "first_call")
                   ELSE Finish(<<>>, "raised", "LogKwarg", reduced.heap)
           ELSE /\ reduction_history' = reduction_history
                /\ context_reduced' = FALSE
                /\ combined_metrics' = combined_metrics
                /\ Invoke(<<>>, sc, h, CallerState, CallerState, "first_call")

\* Steps 3 and 4 of EnhancedLLMAgent.generate_next_message, then return
EnhancedReturn(cs, value, metrics, retried, sequences, h) ==
    /\ combined_metrics' =
           _update_combined_metrics(metrics, context_reduced, retried,
                                    reduction_history, sequences)
    /\ Finish(cs, "returned", value, h)

\* the first downstream call returns or raises
DownstreamFirst ==
    /\ pc = "first_call"
    /\ UNCHANGED <<config, reduction_history, operation_counter, turns, entry,
                   sleeps, retry_attempt, attempt, context_reduced,
                   retry_sequences>>
    /\ LET o == script[Len(calls)]
           resolved == [calls EXCEPT ![Len(calls)].result = o]
       IN  IF o = "ok" THEN
               /\ UNCHANGED <<original_error, retry_sequence, retry_used>>
               /\ IF agent = "enhanced"
                  THEN EnhancedReturn(resolved, "Success", combined_metrics,
                                      FALSE, retry_sequences, heap)
                  ELSE /\ combined_metrics' = combined_metrics
                       /\ Finish(resolved, "returned", "Success", heap)
           ELSE IF agent # "context" /\ o \in RetryableErrors THEN
               \* _handle_retry_scenario / _handle_enhanced_retry_scenario
               /\ original_error' = o
               /\ retry_sequence' =
                      RetrySequence(IF agent = "retry" THEN "unknown"
                                    ELSE "enhanced_operation")
               /\ retry_used' = (agent = "enhanced")
               /\ combined_metrics' =
                      IF agent = "enhanced"
                      THEN [combined_metrics EXCEPT !.operations_with_retry = @ + 1]
                      ELSE combined_metrics
               /\ pc' = "attempt"
               /\ outcome' = "-"
               /\ heap' = Collect(heap, {CallerState, state})
               /\ arg' = state
               /\ calls' = resolved
               /\ UNCHANGED <<state, script>>
           ELSE
               /\ UNCHANGED <<original_error, retry_sequence, retry_used,
                              combined_metrics>>
               /\ Finish(resolved, "raised", o, heap)

\* not the code: a coordinator that raises original_error in place of the exception handled
RaiseOriginalError(e) == original_error

\* raise, in the except branch: the exception being handled propagates
Reraise(e) == e

\* not the code: an except branch that lets an exception that is not
\* retryable leave the loop at once
AttemptFailedUnlessFatal(cs, e, seq, ra, h) ==
    LET failed == [ra EXCEPT !.error_message = e, !.error_type = TypeName(e)]
        recorded == AppendAttempt(seq, failed)
    IN  /\ retry_attempt' = failed
        /\ combined_metrics' = combined_metrics
        /\ IF NotFinalAttempt(attempt) /\ e \in RetryableErrors
           THEN /\ sleeps' = Append(sleeps, [after |-> attempt + 1,
                                             delay |-> BackoffDelay(attempt)])
                /\ original_error' = e
                /\ attempt' = attempt + 1
                /\ retry_sequence' = recorded
                /\ retry_sequences' = retry_sequences
                /\ pc' = "attempt"
                /\ outcome' = "-"
                /\ heap' = Collect(h, {CallerState, state})
                /\ arg' = state
                /\ calls' = cs
                /\ UNCHANGED <<state, script>>
           ELSE /\ retry_sequence' = [recorded EXCEPT !.final_success = FALSE]
                /\ retry_sequences' =
                       Append(retry_sequences,
                              [recorded EXCEPT !.final_success = FALSE])
                /\ UNCHANGED <<sleeps, original_error, attempt>>
                /\ Finish(cs, "raised", e, h)

\* the except branch of the retry loop, on error e of attempt number attempt + 1
AttemptFailed(cs, e, seq, ra, h) ==
    LET failed == [ra EXCEPT !.error_message = e, !.error_type = TypeName(e)]
        recorded == AppendAttempt(seq, failed)
    IN  /\ retry_attempt' = failed
        /\ combined_metrics' = combined_metrics
        /\ IF NotFinalAttempt(attempt)
           THEN /\ sleeps' = Append(sleeps, [after |-> attempt + 1,
                                             delay |-> BackoffDelay(attempt)])
                /\ original_error' = e
                /\ attempt' = attempt + 1
                /\ retry_sequence' = recorded
                /\ retry_sequences' = retry_sequences
                /\ pc' = "attempt"
                /\ outcome' = "-"
                /\ heap' = Collect(h, {CallerState, state})
                /\ arg' = state
                /\ calls' = cs
                /\ UNCHANGED <<state, script>>
           ELSE /\ retry_sequence' = [recorded EXCEPT !.final_success = FALSE]
                /\ retry_sequences' =
                       Append(retry_sequences,
                              [recorded EXCEPT !.final_success = FALSE])
                /\ UNCHANGED <<sleeps, original_error, attempt>>
                /\ Finish(cs, "raised", Reraise(e), h)

\* one iteration of the retry loop up to its downstream call
RetryLoop ==
    /\ pc = "attempt"
    /\ UNCHANGED <<config, reduction_history, operation_counter, turns, entry,
                   context_reduced, retry_used>>
    /\ IF ~InRange(attempt) THEN
           \* the loop is over: the handler returns None
           /\ UNCHANGED <<retry_sequences, sleeps, original_error, attempt,
                          retry_sequence, retry_attempt>>
           /\ IF agent = "enhanced"
              THEN EnhancedReturn(calls, "None", combined_metrics, TRUE,
                                  retry_sequences, heap)
              ELSE /\ combined_metrics' = combined_metrics
                   /\ Finish(calls, "returned", "None", heap)
       ELSE
           LET prepared ==
                   IF agent = "retry"
                   THEN RetryPrepare(heap, state, original_error, attempt)
                   ELSE EnhancedPrepare(heap, state, original_error, attempt)
               ra == RetryAttempt(attempt + 1, original_error, prepared.strategy)
               seq == [retry_sequence EXCEPT
                         !.recovery_strategies_used = Append(@, prepared.strategy)]
           IN  IF agent = "retry" /\ ~log_context_reduction(RetryLoggerKeywords)
               THEN AttemptFailed(calls, "LogKwarg", seq, ra, prepared.heap)
               ELSE /\ retry_attempt' = ra
                    /\ retry_sequence' = seq
                    /\ UNCHANGED <<retry_sequences, sleeps, original_error,
                                   attempt, combined_metrics>>
                    /\ Invoke(calls, script, prepared.heap, state,
                              prepared.ref, "retry_call")

\* the downstream call of a retry attempt returns or raises
DownstreamRetry ==
    /\ pc = "retry_call"
    /\ UNCHANGED <<config, reduction_history, operation_counter, turns, entry,
                   context_reduced, retry_used>>
    /\ LET o == script[Len(calls)]
           resolved == [calls EXCEPT ![Len(calls)].result = o]
           succeeded == [retry_attempt EXCEPT !.success = TRUE]
           closed == [AppendAttempt(retry_sequence, succeeded)
                        EXCEPT !.final_success = TRUE]
       IN  IF o = "ok" THEN
               /\ retry_attempt' = succeeded
               /\ retry_sequence' = closed
               /\ retry_sequences' = Append(retry_sequences, closed)
               /\ UNCHANGED <<sleeps, original_error, attempt>>
               /\ IF agent = "enhanced"
                  THEN EnhancedReturn(
                           resolved, "Success",
                           [combined_metrics EXCEPT !.successful_retries = @ + 1],
                           TRUE, Append(retry_sequences, closed), heap)
                  ELSE /\ combined_metrics' = combined_metrics
                       /\ Finish(resolved, "returned", "Success", heap)
           ELSE AttemptFailed(resolved, o, retry_sequence, retry_attempt, heap)

Next ==
    \/ \E messages \in MessageInputs, sc \in Scripts(MaxCalls) :
          ContextGenerate(messages, sc)
    \/ \E messages \in MessageInputs, sc \in Scripts(MaxCalls) :
          RetryGenerate(messages, sc)
    \/ \E messages \in MessageInputs, sc \in Scripts(MaxCalls) :
          EnhancedGenerate(messages, sc)
    \/ DownstreamFirst
    \/ RetryLoop
    \/ DownstreamRetry

Spec == Init /\ [][Next]_vars

(***************************************************************************)
(* The reduction pass on its own: _apply_context_reduction applied to a    *)
(* state drawn from a family of message sequences, under a configuration   *)
(* drawn from a family of limits, and applied again to the state it        *)
(* returned.  entry.messages is the sequence the pass was given and        *)
(* heap[arg] the sequence of the state it returned.                        *)
(***************************************************************************)
\* the largest number of messages that follow the leading system message
MaxOther == 7
\* the number of passes applied in a row
MaxReductions == 2

MessageKinds ==
    {"short", "medium", "large", "error", "success", "toolcall", "note"}

\* a message of kind k, the object oid
MessageOfKind(k, oid) ==
    CASE k = "short"    -> Message(oid, "user", 10, 0, 0, 0)
      [] k = "medium"   -> Message(oid, "user", 400, 0, 0, 0)
      [] k = "large"    -> Message(oid, "user", 3000, 0, 0, 0)
      [] k = "error"    -> Message(oid, "tool", 1200, 30, 0, 0)
      [] k = "success"  -> Message(oid, "tool", 1200, 0, 12, 0)
      [] k = "toolcall" -> Message(oid, "assistant", 0, 0, 0, 240)
      [] OTHER          -> Message(oid, "system", 50, 0, 0, 0)

\* the length of the leading system message, 0 for none
SystemLengths == {0, 5, 1200}

\* a leading system message, then n messages of kind a but for the one at
\* pos, of kind b
SequenceOf(sys, n, a, b, pos) ==
    LET system_messages ==
            IF sys = 0 THEN <<>> ELSE << Message(1, "system", sys, 0, 0, 0) >>
        first == Len(system_messages)
    IN  system_messages \o
        [i \in 1..n |-> MessageOfKind(IF i = pos THEN b ELSE a, first + i)]

ReductionInputs ==
    UNION { { SequenceOf(sys, n, a, b, pos) :
                sys \in SystemLengths, a \in MessageKinds, b \in MessageKinds,
                pos \in {1, n} } : n \in 0..MaxOther }

ContextLimits == {60, 1000, 6000}

ContextReserves == {0, 500}

ReduceInit ==
    /\ agent = "context"
    /\ max_retries = 3
    /\ retry_delay_base = 5
    /\ context_limit \in ContextLimits
    /\ \E p \in ThresholdPairs :
          /\ warning_threshold = p[1]
          /\ critical_threshold = p[2]
    /\ min_context_reserve \in ContextReserves
    /\ reduction_history = <<>>
    /\ retry_sequences = <<>>
    /\ combined_metrics = EnhancedPerformanceMetrics
    /\ operation_counter = 0
    /\ pc = "idle"
    /\ outcome = "-"
    /\ \E messages \in ReductionInputs :
          /\ heap = (CallerState :> messages)
          /\ entry = [messages |-> messages, reduction_history |-> <<>>,
                      retry_sequences |-> <<>>,
                      combined_metrics |-> EnhancedPerformanceMetrics,
                      operation_counter |-> 0]
    /\ state = CallerState
    /\ arg = CallerState
    /\ attempt = 0
    /\ original_error = "-"
    /\ retry_sequence = RetrySequence("-")
    /\ retry_attempt = NoAttempt
    /\ context_reduced = FALSE
    /\ retry_used = FALSE
    /\ script = <<>>
    /\ turns = 0
    /\ calls = <<>>
    /\ sleeps = <<>>

\* state = self._apply_context_reduction(state, token_stats)
ApplyContextReduction ==
    /\ Len(reduction_history) < MaxReductions
    /\ LET token_stats == _analyze_token_usage(heap[state])
           reduced == _apply_context_reduction(heap, state, token_stats)
       IN  /\ entry' = [entry EXCEPT
                          !.messages = heap[state],
                          !.reduction_history = reduction_history]
           /\ reduction_history' = Append(reduction_history, reduced.result)
           /\ heap' = Collect(reduced.heap, {CallerState, reduced.ref})
           /\ state' = reduced.ref
           /\ arg' = reduced.ref
    /\ UNCHANGED <<config, retry_sequences, combined_metrics,
                   operation_counter, pc, outcome, attempt, original_error,
                   retry_sequence, retry_attempt, context_reduced, retry_used,
                   script, turns, calls, sleeps>>

ReduceNext == ApplyContextReduction

ReduceSpec == ReduceInit /\ [][ReduceNext]_vars

(***************************************************************************)
(* The combined pipeline on its own: EnhancedLLMAgent with its default     *)
(* thresholds, under a small and a large context limit, over states that   *)
(* stay below the warning tier and are retried.                            *)
(***************************************************************************)
\* 220 tokens, no message over 1000 characters
InputPlain ==
    << Message(1, "user", 400, 0, 0, 0),
       Message(2, "assistant", 400, 0, 0, 0) >>

\* 755 tokens, one message over 1000 characters
InputVerbose ==
    << Message(1, "system", 400, 0, 0, 0),
       Message(2, "tool", 1600, 30, 0, 0),
       Message(3, "user", 900, 0, 0, 0) >>

PipelineInputs == {InputShort, InputPlain, InputVerbose}

PipelineLimits == {300, 1000}

PipelineInit ==
    /\ agent = "enhanced"
    /\ max_retries \in 0..MaxRetries
    /\ retry_delay_base = 5
    /\ context_limit \in PipelineLimits
    /\ warning_threshold = 80
    /\ critical_threshold = 95
    /\ min_context_reserve = 500
    /\ reduction_history = <<>>
    /\ retry_sequences = <<>>
    /\ combined_metrics = EnhancedPerformanceMetrics
    /\ operation_counter = 0
    /\ pc = "idle"
    /\ outcome = "-"
    /\ heap = (CallerState :> <<>>)
    /\ state = CallerState
    /\ arg = CallerState
    /\ attempt = 0
    /\ original_error = "-"
    /\ retry_sequence = RetrySequence("-")
    /\ retry_attempt = NoAttempt
    /\ context_reduced = FALSE
    /\ retry_used = FALSE
    /\ script = <<>>
    /\ turns = 0
    /\ calls = <<>>
    /\ sleeps = <<>>
    /\ entry = [messages |-> <<>>, reduction_history |-> <<>>,
                retry_sequences |-> <<>>,
                combined_metrics |-> EnhancedPerformanceMetrics,
                operation_counter |-> 0]

PipelineNext ==
    \/ \E messages \in PipelineInputs, sc \in Scripts(MaxCalls) :
          EnhancedGenerate(messages, sc)
    \/ DownstreamFirst
    \/ RetryLoop
    \/ DownstreamRetry

PipelineSpec == PipelineInit /\ [][PipelineNext]_vars

(***************************************************************************)
(* The public operations of one EnhancedLLMAgent in any order:             *)
(* generate_next_message, configure_enhanced_agent, reset_enhanced_metrics *)
(* and get_enhanced_statistics.  The three that are not turns are made     *)
(* between turns and return at once.                                       *)
(***************************************************************************)
BetweenCalls == pc \in {"idle", "returned", "raised"}

\* the values configure_enhanced_agent is called with
ConfiguredRetries == {1, 2}

\* configure_enhanced_agent(context_limit=limit, max_retries=retries)
ConfigureEnhancedAgent(limit, retries) ==
    /\ agent = "enhanced"
    /\ BetweenCalls
    /\ context_limit' = limit
    /\ warning_threshold' = 80
    /\ critical_threshold' = 95
    /\ max_retries' = retries
    /\ retry_delay_base' = 5
    /\ pc' = "returned"
    /\ outcome' = "None"
    /\ UNCHANGED <<agent, min_context_reserve, reduction_history,
                   retry_sequences, combined_metrics, operation_counter, heap,
                   state, arg, attempt, original_error, retry_sequence,
                   retry_attempt, context_reduced, retry_used, script, turns,
                   calls, sleeps, entry>>

\* not the code: a reset that forgets the oldest entry of each history
ResetDropsOldest ==
    /\ agent = "enhanced"
    /\ BetweenCalls
    /\ combined_metrics' = EnhancedPerformanceMetrics
    /\ reduction_history' =
           IF reduction_history = <<>> THEN <<>> ELSE Tail(reduction_history)
    /\ retry_sequences' =
           IF retry_sequences = <<>> THEN <<>> ELSE Tail(retry_sequences)
    /\ operation_counter' = 0
    /\ pc' = "returned"
    /\ outcome' = "None"
    /\ UNCHANGED <<config, heap, state, arg, attempt, original_error,
                   retry_sequence, retry_attempt, context_reduced, retry_used,
                   script, turns, calls, sleeps, entry>>

\* reset_enhanced_metrics()
ResetEnhancedMetrics ==
    /\ agent = "enhanced"
    /\ BetweenCalls
    /\ combined_metrics' = EnhancedPerformanceMetrics
    /\ reduction_history' = <<>>
    /\ retry_sequences' = <<>>
    /\ operation_counter' = 0
    /\ pc' = "returned"
    /\ outcome' = "None"
    /\ UNCHANGED <<config, heap, state, arg, attempt, original_error,
                   retry_sequence, retry_attempt, context_reduced, retry_used,
                   script, turns, calls, sleeps, entry>>

\* get_enhanced_statistics(): reads the histories and the metrics
GetEnhancedStatistics ==
    /\ agent = "enhanced"
    /\ BetweenCalls
    /\ pc' = "returned"
    /\ outcome' = "statistics"
    /\ UNCHANGED <<config, reduction_history, retry_sequences,
                   combined_metrics, operation_counter, heap, state, arg,
                   attempt, original_error, retry_sequence, retry_attempt,
                   context_reduced, retry_used, script, turns, calls, sleeps,
                   entry>>

LifecycleInit ==
    /\ PipelineInit
    /\ context_limit = 1000
    /\ max_retries \in ConfiguredRetries

LifecycleNext ==
    \/ \E messages \in PipelineInputs, sc \in Scripts(MaxCalls) :
          EnhancedGenerate(messages, sc)
    \/ DownstreamFirst
    \/ RetryLoop
    \/ DownstreamRetry
    \/ \E limit \in PipelineLimits, retries \in ConfiguredRetries :
          ConfigureEnhancedAgent(limit, retries)
    \/ ResetEnhancedMetrics
    \/ GetEnhancedStatistics

LifecycleSpec == LifecycleInit /\ [][LifecycleNext]_vars

(***************************************************************************)
(* Properties of the retry coordinator.                                    *)
(***************************************************************************)

\* C1: every RetrySequence appended to retry_sequences holds at most
\* max_retries attempts, whatever max_retries >= 0 is and whatever the
\* downstream calls do.
C1_AttemptsWithinMaxRetries ==
    \A i \in 1..Len(retry_sequences) :
        Len(retry_sequences[i].attempts) <= max_retries

\* a sequence that used up a budget of two attempts or more, and a shorter one
C1_Witness ==
    /\ max_retries >= 2
    /\ \E i \in 1..Len(retry_sequences) :
          Len(retry_sequences[i].attempts) = max_retries
    /\ \E i \in 1..Len(retry_sequences) :
          Len(retry_sequences[i].attempts) < max_retries

\* C2: generate_next_message never returns normally without a result that a
\* downstream call produced, whatever max_retries >= 0 is.
C2_NeverSwallowsFailure ==
    (turns > 0 /\ pc = "returned") =>
        /\ calls # <<>>
        /\ calls[Len(calls)].result = "ok"
        /\ outcome = "Success"

\* C3, as the code has it: when a retry sequence closes with final_success
\* false, the exception that reaches the caller is the one the final attempt
\* raised, and its type is the type that attempt records.
C3_FinalErrorPropagates ==
    (pc = "raised" /\ Len(retry_sequences) > Len(entry.retry_sequences)) =>
        LET closed == Last(retry_sequences)
            final == Last(closed.attempts)
        IN  /\ ~closed.final_success
            /\ Len(closed.attempts) = max_retries
            /\ outcome = final.error_message
            /\ TypeName(outcome) = final.error_type
            /\ agent = "enhanced" => outcome = calls[Len(calls)].result

\* an exhausted sequence of EnhancedLLMAgent whose final error is of another
\* type than the failure that started it
C3_Witness ==
    /\ agent = "enhanced"
    /\ pc = "raised"
    /\ Len(retry_sequences) > Len(entry.retry_sequences)
    /\ TypeName(calls[1].result) = "ValidationError"
    /\ TypeName(outcome) = "RuntimeError"
    /\ max_retries >= 2

\* C3, as the specification has it, for EnhancedLLMAgent: when a retry
\* sequence closes with final_success false the exception that reaches the
\* caller has the type of the failure that started the sequence.
C3_OriginalTypePropagates ==
    (agent = "enhanced" /\ pc = "raised"
       /\ Len(retry_sequences) > Len(entry.retry_sequences)) =>
        TypeName(outcome) = TypeName(calls[1].result)

C5_SuccessAtKthRetry ==
    [][\A k \in 1..MaxRetries :
          (/\ agent = "retry"
           /\ pc \in {"first_call", "attempt", "retry_call"}
           /\ pc' \in {"returned", "raised"}
           /\ k <= max_retries
           /\ script[1] \in RetryableErrors
           /\ \A i \in 1..k : script[i] # "ok"
           /\ script[k + 1] = "ok") =>
              /\ pc' = "returned"
              /\ outcome' = "Success"
              /\ Len(calls') = k + 1
              /\ Len(retry_sequences') = Len(entry.retry_sequences) + 1
              /\ LET closed == Last(retry_sequences')
                 IN  /\ Len(closed.attempts) = k
                     /\ closed.final_success
                     /\ \A i \in 1..k : closed.attempts[i].success <=> i = k
      ]_vars

\* C6: in RetryManagedLLMAgent with max_retries = N >= 1, when every
\* downstream call raises a retryable error, the downstream call is invoked
\* N times in all and one RetrySequence of N attempts, final_success false,
\* is appended.
C6_ExhaustionAfterNCalls ==
    [][(/\ agent = "retry"
        /\ pc \in {"first_call", "attempt", "retry_call"}
        /\ pc' \in {"returned", "raised"}
        /\ max_retries >= 1
        /\ \A i \in 1..Len(script) : script[i] \in RetryableErrors) =>
           /\ Len(calls') = max_retries
           /\ Len(retry_sequences') = Len(entry.retry_sequences) + 1
           /\ Len(Last(retry_sequences').attempts) = max_retries
           /\ ~Last(retry_sequences').final_success
      ]_vars

\* C7: the sleep after failed attempt n (1 <= n < max_retries) lasts
\* retry_delay_base * 2^(n-1), so the delays grow strictly; there is no
\* sleep before attempt 1, after a successful attempt or after the final
\* attempt, and an exhausted sequence has slept max_retries - 1 times.
C7_ExponentialBackoff ==
    LET attempts == retry_sequence.attempts
    IN  /\ \A n \in 1..Len(sleeps) :
              /\ sleeps[n].after = n
              /\ n < max_retries
              /\ n <= Len(attempts)
              /\ ~attempts[n].success
              /\ sleeps[n].delay = retry_delay_base * (2 ^ (n - 1))
        /\ \A m, n \in 1..Len(sleeps) :
              m < n => sleeps[m].delay < sleeps[n].delay
        /\ Len(sleeps) =
              Cardinality({ n \in 1..Len(attempts) :
                              ~attempts[n].success /\ n < max_retries })
        /\ (pc = "raised" /\ Len(retry_sequences) > Len(entry.retry_sequences))
              => Len(sleeps) = max_retries - 1

\* an exhausted sequence of three attempts or more, and two growing sleeps
C7_Witness ==
    /\ pc = "raised"
    /\ Len(retry_sequences) > Len(entry.retry_sequences)
    /\ max_retries >= 3
    /\ Len(sleeps) = max_retries - 1
    /\ sleeps[2].delay = 2 * sleeps[1].delay

(***************************************************************************)
(* Properties of the context budget manager and of the combined agent.     *)
(***************************************************************************)

\* C8, as the code has it: ContextManagedLLMAgent takes the normal tier
\* first.  Below the warning threshold, the limit not breached, it records
\* no reduction and hands the caller's state to the downstream call; from
\* the warning threshold on it applies emergency_reduction when utilization
\* has reached the critical threshold and moderate_reduction when not; a
\* reducing call appends one result that carries the name of the strategy.
C8_TierWarningFirst ==
    (agent = "context" /\ pc = "first_call") =>
        LET tokens == estimate_tokens(entry.messages)
            normal == /\ tokens * 100 < warning_threshold * context_limit
                      /\ tokens <= context_limit
            critical == tokens * 100 >= critical_threshold * context_limit
            appended == Len(reduction_history) = Len(entry.reduction_history) + 1
        IN  /\ normal =>
                /\ reduction_history = entry.reduction_history
                /\ arg = CallerState
                /\ calls[1].messages = entry.messages
            /\ (~normal /\ critical) =>
                /\ appended
                /\ Last(reduction_history).reduction_strategy = "emergency_reduction"
                /\ arg # CallerState
            /\ (~normal /\ ~critical) =>
                /\ appended
                /\ Last(reduction_history).reduction_strategy = "moderate_reduction"
                /\ arg # CallerState

\* the three tiers, the reducing ones with a history that was not empty
C8_Witness ==
    /\ agent = "context"
    /\ pc = "first_call"
    /\ Len(reduction_history) = 2
    /\ reduction_history[1].reduction_strategy = "emergency_reduction"
    /\ reduction_history[2].reduction_strategy = "moderate_reduction"

\* C8, as the specification has it, for every pair of thresholds: below the
\* warning threshold no reduction and the caller's state handed on; at or
\* above the critical threshold, or over the limit, emergency_reduction;
\* between the two moderate_reduction.
C8_TierOfEveryThresholdPair ==
    (agent = "context" /\ pc = "first_call") =>
        LET tokens == estimate_tokens(entry.messages)
            below_warning == tokens * 100 < warning_threshold * context_limit
            critical == \/ tokens * 100 >= critical_threshold * context_limit
                        \/ tokens > context_limit
            appended == Len(reduction_history) = Len(entry.reduction_history) + 1
        IN  /\ below_warning =>
                /\ reduction_history = entry.reduction_history
                /\ arg = CallerState
            /\ critical =>
                /\ appended
                /\ Last(reduction_history).reduction_strategy = "emergency_reduction"
            /\ (~below_warning /\ ~critical) =>
                /\ appended
                /\ Last(reduction_history).reduction_strategy = "moderate_reduction"

\* C9: in EnhancedLLMAgent, when the utilization of the incoming state is at
\* or above the warning threshold, the reduction is recorded and the
\* downstream call is then invoked, each time with the reduced state and not
\* with the caller's.
C9_ReducedStateReachesDownstream ==
    (/\ agent = "enhanced"
     /\ turns > 0
     /\ pc \in {"returned", "raised"}
     /\ estimate_tokens(entry.messages) * 100 >= warning_threshold * context_limit) =>
        /\ Len(reduction_history) = Len(entry.reduction_history) + 1
        /\ calls # <<>>
        /\ \A i \in 1..Len(calls) : calls[i].ref # CallerState

\* C10: generate_next_message of the three agents leaves the caller's state
\* as it was: during the call and after it, returned or raised, the caller's
\* state.messages holds the messages it held at the call.
C10_CallerStateUntouched ==
    turns > 0 => heap[CallerState] = entry.messages

\* a call over, after a downstream call that got a changed clone
C10_Witness ==
    /\ pc \in {"returned", "raised"}
    /\ \E i \in 1..Len(calls) :
          /\ calls[i].ref # CallerState
          /\ calls[i].messages # entry.messages

(***************************************************************************)
(* Properties of the context budget manager's reduction pass.              *)
(***************************************************************************)
\* C11: every ReductionResult appended to reduction_history has
\* reduced_token_count <= original_token_count, whatever the strategy, the
\* message sequence and the context limit: a reduction never produces a state
\* estimated larger than the state it was given.
C11_ReductionNeverGrows ==
    \A i \in 1..Len(reduction_history) :
        reduction_history[i].reduced_token_count
            <= reduction_history[i].original_token_count

\* C12: every ReductionResult appended to reduction_history has
\* reduced_message_count <= original_message_count, so messages_dropped >= 0,
\* the passes that insert a synthetic summary note included.
C12_MessageCountNeverGrows ==
    \A i \in 1..Len(reduction_history) :
        /\ reduction_history[i].reduced_message_count
              <= reduction_history[i].original_message_count
        /\ reduction_history[i].messages_dropped >= 0

\* the oids of the objects of a sequence
Oids(messages) == { messages[i].oid : i \in 1..Len(messages) }

\* the last pass inserted a note (a system message that is a new object) and
\* dropped one message only: the counts are equal
C12_Witness ==
    /\ reduction_history # <<>>
    /\ \E i \in 1..Len(heap[arg]) :
          /\ IsSystemMessage(heap[arg][i])
          /\ heap[arg][i].oid \notin Oids(entry.messages)
    /\ Last(reduction_history).messages_dropped = 0
    /\ Last(reduction_history).original_message_count >= 6

\* C13: the information-preservation score of every reduction pass,
\* 0.3 * (reduced message count / original message count)
\* + 0.7 * (reduced content length / original content length), lies in [0, 1].
C13_PreservationWithinUnitInterval ==
    \A i \in 1..Len(reduction_history) :
        LET score == reduction_history[i].information_preserved
        IN  /\ score.den > 0
            /\ 0 <= score.num
            /\ score.num <= score.den

\* the last pass was a moderate reduction of entry.messages into heap[arg]
ModeratePass ==
    /\ reduction_history # <<>>
    /\ Last(reduction_history).reduction_strategy = "moderate_reduction"

\* other_messages of the sequence the pass was given
other_before == SelectSeq(entry.messages, NotSystemMessage)

\* kept_messages: the summary note is a system message
kept_after == SelectSeq(heap[arg], NotSystemMessage)

\* the sum of estimate_tokens([msg]) over the messages, as the scan
\* subtracts them one by one
RECURSIVE TokensOneByOne(_)
TokensOneByOne(messages) ==
    IF messages = <<>> THEN 0
    ELSE estimate_tokens(<<Head(messages)>>) + TokensOneByOne(Tail(messages))

\* token_budget when the scan stopped
remaining_budget ==
    context_limit
      - estimate_tokens(SelectSeq(entry.messages, IsSystemMessage))
      - min_context_reserve
      - TokensOneByOne(kept_after)

\* the message at which the scan stopped
first_dropped == other_before[Len(other_before) - Len(kept_after)]

\* every system message of the input is in the result, the same object
SystemMessagesRetained ==
    \A i \in 1..Len(entry.messages) :
        IsSystemMessage(entry.messages[i])
            => \E j \in 1..Len(heap[arg]) : heap[arg][j] = entry.messages[i]

\* kept_messages are the most recent messages in their order, each whole or
\* compressed at level 0.6
KeptAreMostRecent ==
    /\ Len(kept_after) <= Len(other_before)
    /\ \A j \in 1..Len(kept_after) :
          LET msg == other_before[Len(other_before) - Len(kept_after) + j]
          IN  \/ kept_after[j] = msg
              \/ /\ kept_after[j].oid \notin Oids(entry.messages)
                 /\ kept_after[j]
                      = _compress_message_content(msg, 6, kept_after[j].oid)

\* C14: moderate reduction retains every system message and drops a
\* non-system message only when it cannot fit in the remaining token budget
\* (context_limit - system tokens - min_context_reserve, less the messages
\* already kept) even in compressed form: the message the backward scan
\* reached and did not keep fits neither whole nor compressed.
C14_DroppedOnlyIfCompressedCannotFit ==
    ModeratePass =>
        /\ SystemMessagesRetained
        /\ KeptAreMostRecent
        /\ Len(kept_after) < Len(other_before) =>
              /\ estimate_tokens(<<first_dropped>>) > remaining_budget
              /\ estimate_tokens(
                    <<_compress_message_content(first_dropped, 6, 0)>>)
                    > remaining_budget

\* C14, as the code has it: the compressed form is tried only while the
\* remaining budget exceeds 100 tokens; the scan stops at the first message
\* that does not fit whole and either meets a budget of 100 tokens or less
\* or does not fit compressed.
C14_DroppedIfNoFitOrBudgetSmall ==
    ModeratePass =>
        /\ SystemMessagesRetained
        /\ KeptAreMostRecent
        /\ Len(kept_after) > 0 => remaining_budget >= 0
        /\ Len(kept_after) < Len(other_before) =>
              /\ estimate_tokens(<<first_dropped>>) > remaining_budget
              /\ \/ remaining_budget <= 100
                 \/ estimate_tokens(
                       <<_compress_message_content(first_dropped, 6, 0)>>)
                       > remaining_budget

\* a moderate pass that kept a message and stopped at one whose compressed
\* form fits the remaining budget of 100 tokens or less
C14_Witness ==
    /\ ModeratePass
    /\ 0 < Len(kept_after)
    /\ Len(kept_after) < Len(other_before)
    /\ remaining_budget <= 100
    /\ estimate_tokens(<<_compress_message_content(first_dropped, 6, 0)>>)
          <= remaining_budget

\* the last pass was an emergency reduction of entry.messages into heap[arg]
EmergencyPass ==
    /\ reduction_history # <<>>
    /\ Last(reduction_history).reduction_strategy = "emergency_reduction"

\* C15: emergency reduction of a sequence with n non-system messages returns
\* exactly: all original system messages in order, then one synthetic
\* summary note if and only if n > 5 (stating n - 5 dropped), then the last
\* min(5, n) non-system messages in their original order, each compressed at
\* level 0.3; no older non-system message survives.
C15_EmergencyExactResult ==
    EmergencyPass =>
        LET system_messages == SelectSeq(entry.messages, IsSystemMessage)
            n == Len(other_before)
            k == IF n < 5 THEN n ELSE 5
            note == IF n > 5 THEN 1 ELSE 0
            result == heap[arg]
        IN  /\ Len(result) = Len(system_messages) + note + k
            /\ SubSeq(result, 1, Len(system_messages)) = system_messages
            /\ n > 5 =>
                  LET summary_msg == result[Len(system_messages) + 1]
                  IN  /\ IsSystemMessage(summary_msg)
                      /\ summary_msg.oid \notin Oids(entry.messages)
                      /\ summary_msg.len = 127 + Digits(n - 5) + Digits(5)
            /\ \A j \in 1..k :
                  LET msg == other_before[n - k + j]
                      kept == result[Len(system_messages) + note + j]
                  IN  /\ kept = _compress_message_content(msg, 3, kept.oid)
                      /\ kept # msg => kept.oid \notin Oids(entry.messages)

\* an emergency pass over more than five non-system messages, with a system
\* message that was not the first message, that shortened a message
C15_Witness ==
    /\ EmergencyPass
    /\ Len(other_before) > 5
    /\ \E i \in 2..Len(entry.messages) : IsSystemMessage(entry.messages[i])
    /\ \E j \in 1..Len(heap[arg]) :
          /\ NotSystemMessage(heap[arg][j])
          /\ heap[arg][j].oid \notin Oids(entry.messages)
          /\ heap[arg][j].len = 140

\* C16: whenever the utilization of the sequence handed to the pass lies in
\* the warning tier (warning_threshold <= utilization < critical_threshold),
\* for every context_limit and min_context_reserve, the pass is the moderate
\* reduction and records a reduced_token_count strictly smaller than its
\* original_token_count.
C16_ModerateStrictlyReduces ==
    reduction_history # <<>> =>
        LET token_stats == _analyze_token_usage(entry.messages)
            result == Last(reduction_history)
        IN  is_warning(token_stats) /\ ~is_critical(token_stats) =>
                /\ result.reduction_strategy = "moderate_reduction"
                /\ result.original_token_count = token_stats.current_tokens
                /\ result.reduced_token_count < result.original_token_count

\* C19: after any budget reduction (emergency, moderate or preventive) no
\* Message object is shared between the sequence the pass was given and the
\* sequence of the state it returned: every message of the reduced state is a
\* distinct copy, the messages kept without compression included.
C19_NoMessageObjectShared ==
    reduction_history # <<>> =>
        Oids(heap[arg]) \cap Oids(entry.messages) = {}

(***************************************************************************)
(* Properties of the combined pipeline.                                    *)
(***************************************************************************)
\* C17: in the combined pipeline every downstream call made after a budget
\* reduction or inside a retry sequence receives a state whose estimated
\* token count does not exceed context_limit.
C17_CallsWithinContextLimit ==
    agent = "enhanced" =>
        \A i \in 1..Len(calls) :
            context_reduced \/ i >= 2 =>
                estimate_tokens(calls[i].messages) <= context_limit

\* two message objects with the same fields
SameContent(a, b) == [a EXCEPT !.oid = 0] = [b EXCEPT !.oid = 0]

\* C18: in the combined pipeline the state handed to the downstream call at
\* each retry attempt is the base messages (those of the first call) followed
\* by exactly one guidance message, the attempt's, as its last element; the
\* light reduction, applied when the estimate with guidance exceeds 90% of
\* context_limit, may shorten messages longer than 1000 characters but drops,
\* adds and reorders nothing: the guidance message is never discarded and
\* the guidance of earlier attempts does not accumulate.
C18_RetryStateIsBasePlusGuidance ==
    agent = "enhanced" =>
        \A i \in 2..Len(calls) :
            LET base == calls[1].messages
                handed == calls[i].messages
                guidance == handed[Len(handed)]
                expected ==
                    _create_enhanced_retry_guidance_message(
                        calls[i - 1].result,
                        retry_sequence.recovery_strategies_used[i - 1],
                        i - 1, TRUE, guidance.oid)
                light ==
                    estimate_tokens(Append(base, expected)) * 10
                        > context_limit * 9
            IN  /\ Len(handed) = Len(base) + 1
                /\ guidance = expected
                /\ guidance.oid \notin Oids(base)
                /\ \A j \in 1..Len(base) :
                      \/ SameContent(handed[j], base[j])
                      \/ /\ light
                         /\ base[j].len > 1000
                         /\ handed[j].len < base[j].len
                         /\ SameContent(handed[j],
                               _compress_message_content(base[j], 6, 0))

\* a second retry attempt whose state was shortened by the light reduction
C18_Witness ==
    /\ agent = "enhanced"
    /\ Len(calls) >= 3
    /\ Len(calls[3].messages) = Len(calls[1].messages) + 1
    /\ \E j \in 1..Len(calls[1].messages) :
          calls[3].messages[j].len < calls[1].messages[j].len

(***************************************************************************)
(* Properties of the histories.                                            *)
(***************************************************************************)
\* s is a prefix of t
IsPrefix(s, t) == Len(s) <= Len(t) /\ SubSeq(t, 1, Len(s)) = s

\* C20: reduction_history and retry_sequences are append-only: across any
\* sequence of public operations on one agent (generate_next_message,
\* configure_enhanced_agent, reset_enhanced_metrics, the statistics
\* accessors) the history observed at any point is a prefix of the history
\* observed at every later point; recorded entries are never reordered or
\* changed.
C20_HistoriesAppendOnly ==
    [][/\ IsPrefix(reduction_history, reduction_history')
       /\ IsPrefix(retry_sequences, retry_sequences')]_vars

\* C20, as the code has it: reset_enhanced_metrics empties both histories;
\* every other step of every other operation leaves each history a prefix
\* of what it becomes, and extends it by one entry at most.
C20_AppendOnlyBetweenResets ==
    [][IF ResetEnhancedMetrics
       THEN reduction_history' = <<>> /\ retry_sequences' = <<>>
       ELSE /\ IsPrefix(reduction_history, reduction_history')
            /\ IsPrefix(retry_sequences, retry_sequences')
            /\ Len(reduction_history') <= Len(reduction_history) + 1
            /\ Len(retry_sequences') <= Len(retry_sequences) + 1]_vars

\* a history with an entry recorded after a reset (operation_counter counts
\* the turns since) under a configured limit, read by the accessor
C20_Witness ==
    /\ Len(reduction_history) + Len(retry_sequences) >= 1
    /\ operation_counter = 1
    /\ turns = 2
    /\ context_limit = 300
    /\ pc = "returned"
    /\ outcome = "statistics"

(***************************************************************************)
(* Properties of the combined metrics.                                     *)
(***************************************************************************)
\* a turn of EnhancedLLMAgent has ended, by a return or by an exception
EnhancedTurnEnded ==
    /\ agent = "enhanced"
    /\ turns > 0
    /\ pc \in {"returned", "raised"}

InputAtEighty ==
    << Message(1, "system", 400, 0, 0, 0),
       Message(2, "user", 1600, 30, 0, 0),
       Message(3, "assistant", 1080, 0, 0, 0) >>

StrategyInputs == {InputShort, InputAtEighty, InputWarning}

\* warning / critical thresholds: the defaults, and a later warning tier
StrategyThresholds == {<<80, 95>>, <<90, 95>>}

\* the errors the downstream call raises here
ClassifiedErrors == DOMAIN ErrorTable \ {"LogKwarg"}

\* the downstream call raises the same error on every call, for good or
\* until its second call
StrategyScripts(n) ==
    { MkScript(n, e, e, okAt) : e \in ClassifiedErrors, okAt \in {0, 2} }

StrategyInit ==
    /\ agent \in {"retry", "enhanced"}
    /\ max_retries \in ConfiguredRetries
    /\ retry_delay_base = 5
    /\ context_limit = 1000
    /\ \E p \in (IF agent = "retry" THEN {<<80, 95>>} ELSE StrategyThresholds) :
          /\ warning_threshold = p[1]
          /\ critical_threshold = p[2]
    /\ min_context_reserve = 500
    /\ reduction_history = <<>>
    /\ retry_sequences = <<>>
    /\ combined_metrics = EnhancedPerformanceMetrics
    /\ operation_counter = 0
    /\ pc = "idle"
    /\ outcome = "-"
    /\ heap = (CallerState :> <<>>)
    /\ state = CallerState
    /\ arg = CallerState
    /\ attempt = 0
    /\ original_error = "-"
    /\ retry_sequence = RetrySequence("-")
    /\ retry_attempt = NoAttempt
    /\ context_reduced = FALSE
    /\ retry_used = FALSE
    /\ script = <<>>
    /\ turns = 0
    /\ calls = <<>>
    /\ sleeps = <<>>
    /\ entry = [messages |-> <<>>, reduction_history |-> <<>>,
                retry_sequences |-> <<>>,
                combined_metrics |-> EnhancedPerformanceMetrics,
                operation_counter |-> 0]

StrategyNext ==
    \/ \E messages \in StrategyInputs, sc \in StrategyScripts(MaxCalls) :
          RetryGenerate(messages, sc)
    \/ \E messages \in StrategyInputs, sc \in StrategyScripts(MaxCalls) :
          EnhancedGenerate(messages, sc)
    \/ DownstreamFirst
    \/ RetryLoop
    \/ DownstreamRetry

StrategySpec == StrategyInit /\ [][StrategyNext]_vars

(***************************************************************************)
(* Properties of the recovery strategies.                                  *)
(***************************************************************************)
\* the error the strategy of attempt k of the current sequence is chosen
\* for: the error of the first downstream call, then the error recorded for
\* the attempt before
ErrorBefore(k) ==
    IF k = 1 THEN calls[1].result
    ELSE retry_sequence.attempts[k - 1].error_message

\* some pattern of the category matches the lower-cased message of the error
CategoryMatches ==
    [e \in DOMAIN ErrorTable |->
        [c \in 1..Len(error_patterns) |->
            \E p \in 1..Len(error_patterns[c].patterns) :
                re_search(error_patterns[c].patterns[p], Lower(Str(e)))]]

C23_ConservativeIffPressureAboveEighty ==
    (agent = "enhanced" /\ calls # <<>>) =>
        \A k \in 1..Len(retry_sequence.recovery_strategies_used) :
            LET base == RecoveryStrategies[ErrorBefore(k)]
                recorded == retry_sequence.recovery_strategies_used[k]
                variants ==
                    [parameter_completion |-> "minimal_parameter_completion",
                     type_correction |-> "simple_type_correction",
                     format_correction |-> "basic_format_correction",
                     value_adjustment |-> "conservative_value_adjustment",
                     enum_correction |-> "direct_enum_correction",
                     generic_simplification |-> "ultra_minimal_guidance"]
            IN  /\ retry_sequence.attempts # <<>> =>
                      retry_sequence.attempts[1].recovery_strategy
                          = retry_sequence.recovery_strategies_used[1]
                /\ IF 10 * estimate_tokens(calls[1].messages) > 8 * context_limit
                   THEN recorded = variants[base]
                   ELSE recorded = base

\* an attempt over a state of 880 tokens at a limit of 1000, which a warning
\* threshold of 0.9 leaves unreduced, gets the variant of type_correction
C23_PressureWitness ==
    /\ agent = "enhanced"
    /\ warning_threshold = 90
    /\ calls # <<>>
    /\ estimate_tokens(calls[1].messages) = 880
    /\ calls[1].result = "ExpectedInt"
    /\ Len(retry_sequence.attempts) = 1
    /\ retry_sequence.attempts[1].recovery_strategy = "simple_type_correction"

(***************************************************************************)
(* Compression and the token estimate on their own: a list of messages     *)
(* whose messages are compressed in place, as the reduction passes do, and *)
(* to which messages are appended.                                         *)
(***************************************************************************)
\* the number of operations applied in a row
MaxEdits == 2

\* compression levels in tenths: emergency, a half, preventive, none
CompressionLevels == {3, 5, 8, 10}

\* the message list at the start: empty, or one message of a kind
ContentInputs ==
    {<<>>} \cup { << MessageOfKind(k, 1) >> : k \in MessageKinds }

\* the kinds of message appended
AppendedKinds == {"short", "toolcall", "error"}

ContentInit ==
    /\ agent = "context"
    /\ max_retries = 3
    /\ retry_delay_base = 5
    /\ context_limit = 1000
    /\ warning_threshold = 80
    /\ critical_threshold = 95
    /\ min_context_reserve = 500
    /\ reduction_history = <<>>
    /\ retry_sequences = <<>>
    /\ combined_metrics = EnhancedPerformanceMetrics
    /\ operation_counter = 0
    /\ pc = "idle"
    /\ outcome = "-"
    /\ \E messages \in ContentInputs :
          /\ heap = (CallerState :> messages)
          /\ entry = [messages |-> messages, reduction_history |-> <<>>,
                      retry_sequences |-> <<>>,
                      combined_metrics |-> EnhancedPerformanceMetrics,
                      operation_counter |-> 0]
    /\ state = CallerState
    /\ arg = CallerState
    /\ attempt = 0
    /\ original_error = "-"
    /\ retry_sequence = RetrySequence("-")
    /\ retry_attempt = NoAttempt
    /\ context_reduced = FALSE
    /\ retry_used = FALSE
    /\ script = <<>>
    /\ turns = 0
    /\ calls = <<>>
    /\ sleeps = <<>>

\* messages[i] = self._compress_message_content(messages[i], compression_level)
CompressInPlace(i, compression_level) ==
    /\ turns < MaxEdits
    /\ i \in 1..Len(heap[state])
    /\ turns' = turns + 1
    /\ entry' = [entry EXCEPT !.messages = heap[state]]
    /\ heap' = [heap EXCEPT ![state][i] =
                   _compress_message_content(@, compression_level,
                                             OidBase(heap) + 1)]
    /\ pc' = "returned"
    /\ outcome' = "compressed"
    /\ UNCHANGED <<config, reduction_history, retry_sequences,
                   combined_metrics, operation_counter, state, arg, attempt,
                   original_error, retry_sequence, retry_attempt,
                   context_reduced, retry_used, script, calls, sleeps>>

\* messages.append(message)
AppendToMessages(k) ==
    /\ turns < MaxEdits
    /\ turns' = turns + 1
    /\ entry' = [entry EXCEPT !.messages = heap[state]]
    /\ heap' = AppendMessage(heap, state, MessageOfKind(k, OidBase(heap) + 1))
    /\ pc' = "returned"
    /\ outcome' = "appended"
    /\ UNCHANGED <<config, reduction_history, retry_sequences,
                   combined_metrics, operation_counter, state, arg, attempt,
                   original_error, retry_sequence, retry_attempt,
                   context_reduced, retry_used, script, calls, sleeps>>

ContentNext ==
    \/ \E i \in 1..(MaxEdits + 1), c \in CompressionLevels : CompressInPlace(i, c)
    \/ \E k \in AppendedKinds : AppendToMessages(k)

ContentSpec == ContentInit /\ [][ContentNext]_vars

(***************************************************************************)
(* Properties of compression and of the token estimate.                    *)
(***************************************************************************)
\* the messages of the list, and an object the heap does not hold
CurrentMessages == { heap[state][i] : i \in 1..Len(heap[state]) }
FreshOid == OidBase(heap) + 1

\* C24: compression is a fixed point when repeated: for every message m and
\* compression level c, compressing the result of
\* _compress_message_content(m, c) again with the same c returns it
\* unchanged.
C24_CompressionFixedPoint ==
    \A m \in CurrentMessages, c \in CompressionLevels :
        LET once == _compress_message_content(m, c, FreshOid)
        IN  _compress_message_content(once, c, FreshOid + 1) = once

\* C24, amended: a message is returned unchanged exactly when its content is
\* empty or the level is at least 1; below 1 a result has content of its
\* own, and compressing it again with the same level returns a new message:
\* the result cut to floor(length * level) characters (half of that for a
\* success message) with a marker appended once more.
C24_FixedPointOnlyIfContentFits ==
    \A m \in CurrentMessages, c \in CompressionLevels :
        LET once == _compress_message_content(m, c, FreshOid)
            twice == _compress_message_content(once, c, FreshOid + 1)
            cut == (once.len * c) \div 10
        IN  IF m.len = 0 \/ c >= 10
            THEN once = m /\ twice = m
            ELSE /\ once.oid = FreshOid
                 /\ once.len > 0
                 /\ twice.oid = FreshOid + 1
                 /\ twice.len = IF HasError(once) THEN cut + 26
                                ELSE IF HasSuccess(once) THEN (cut \div 2) + 42
                                ELSE cut + 20

\* a message of 3000 characters compressed at 0.5 to 1520 and, in the same
\* way again, to 780
C24_TwiceWitness ==
    /\ outcome = "compressed"
    /\ turns = 2
    /\ Len(heap[state]) = 1
    /\ entry.messages[1].len = 1520
    /\ heap[state][1].len = 780
    /\ heap[state][1].oid # entry.messages[1].oid

\* C25: for every message with non-empty content and every compression
\* level below 1, _compress_message_content returns a message with the role
\* of the original whose content is strictly shorter than the original's
\* and ends with a truncation marker (of 20, 26 or 42 characters), and the
\* original message object is left as it was: the result is a new object.
C25_CompressedIsShorter ==
    \A m \in CurrentMessages, c \in CompressionLevels :
        (m.len > 0 /\ c < 10) =>
            LET compressed == _compress_message_content(m, c, FreshOid)
            IN  /\ compressed.role = m.role
                /\ compressed.oid = FreshOid
                /\ compressed.len >= 20
                /\ compressed.len < m.len

\* C26: the token estimate of the character heuristic is never negative,
\* and appending a message to a list never lowers it: for every list M the
\* agent holds and every message msg, estimate_tokens(M) >= 0 and
\* estimate_tokens(M ++ [msg]) >= estimate_tokens(M); a list that was just
\* appended to estimates at least what it did before.
C26_EstimateMonotonic ==
    /\ estimate_tokens(heap[state]) >= 0
    /\ \A k \in MessageKinds :
          estimate_tokens(Append(heap[state], MessageOfKind(k, FreshOid)))
              >= estimate_tokens(heap[state])
    /\ \A n \in 0..Len(heap[state]) :
          /\ estimate_tokens(SubSeq(heap[state], 1, n)) >= 0
          /\ estimate_tokens(SubSeq(heap[state], 1, n))
                <= estimate_tokens(heap[state])
    /\ outcome = "appended" =>
          estimate_tokens(heap[state]) >= estimate_tokens(entry.messages) + 10

\* a tool call message of 240 characters appended to a message of 10: the
\* estimate goes from 12 to 82
C26_AppendedWitness ==
    /\ outcome = "appended"
    /\ Len(entry.messages) = 1
    /\ estimate_tokens(entry.messages) = 12
    /\ Len(heap[state]) = 2
    /\ heap[state][2].tc = 240
    /\ estimate_tokens(heap[state]) = 82

\* C27: in EnhancedLLMAgent combined_metrics.successful_retries never
\* exceeds combined_metrics.retry_sequences, so retry_success_rate lies
\* between 0 and 1; after a turn it is the fraction of the counted retry
\* sequences that ended with final_success.
C27_SuccessfulRetriesWithinSequences ==
    agent = "enhanced" =>
        /\ combined_metrics.successful_retries <= combined_metrics.retry_sequences
        /\ combined_metrics.retry_success_rate.num >= 0
        /\ combined_metrics.retry_success_rate.num
              <= combined_metrics.retry_success_rate.den
        /\ (pc = "returned" /\ combined_metrics.retry_sequences > 0) =>
              /\ combined_metrics.retry_success_rate.den
                    = combined_metrics.retry_sequences
              /\ combined_metrics.retry_success_rate.num
                    <= Cardinality({ i \in 1..Len(retry_sequences) :
                                        retry_sequences[i].final_success })

\* C28: after every turn of EnhancedLLMAgent, one that raises included,
\* total_operations equals operation_counter, neither
\* operations_with_context_reduction nor operations_with_retry exceeds
\* total_operations, and the four entries of enhancement_breakdown
\* (context_only, retry_only, both_enhancements, no_enhancement) are not
\* negative.
C28_CountersConsistent ==
    EnhancedTurnEnded =>
        LET m == combined_metrics
            total_ops == m.total_operations
            context_only == m.operations_with_context_reduction - m.operations_with_both
            retry_only == m.operations_with_retry - m.operations_with_both
            no_enhancement ==
                total_ops - m.operations_with_context_reduction
                    - m.operations_with_retry + m.operations_with_both
        IN  /\ total_ops = operation_counter
            /\ m.operations_with_context_reduction <= total_ops
            /\ m.operations_with_retry <= total_ops
            /\ context_only >= 0
            /\ retry_only >= 0
            /\ m.operations_with_both >= 0
            /\ no_enhancement >= 0

(***************************************************************************)
(* Properties of the retry loop.                                           *)
(***************************************************************************)
\* C29: once a retry sequence has started retryability is not evaluated
\* again: the exception of a retry attempt, retryable or not, is recorded as
\* a failed attempt; while attempts remain it is followed by the backoff
\* sleep and by another attempt, whose strategy is selected from that
\* exception; generate_next_message raises out of a retry sequence only
\* with the exception of the final attempt.
C29_NoRetryabilityCheckInsideSequence ==
    (agent \in {"retry", "enhanced"} /\ original_error # "-") =>
        LET attempts == retry_sequence.attempts
            used == retry_sequence.recovery_strategies_used
        IN  /\ \A j \in 2..Len(calls) :
                  calls[j].result \in DOMAIN ErrorTable =>
                      /\ Len(attempts) >= j - 1
                      /\ ~attempts[j - 1].success
                      /\ attempts[j - 1].error_message = calls[j].result
            /\ \A n \in 1..Len(attempts) :
                  (~attempts[n].success /\ n < max_retries) =>
                      /\ Len(sleeps) >= n
                      /\ sleeps[n].after = n
                      /\ (pc = "attempt" /\ attempt = n) \/ Len(used) > n
                      /\ Len(used) > n =>
                            used[n + 1] =
                                IF agent = "retry"
                                THEN RecoveryStrategies[attempts[n].error_message]
                                ELSE _determine_enhanced_recovery_strategy(
                                         attempts[n].error_message,
                                         calls[1].messages)
            /\ pc = "raised" =>
                  /\ Len(attempts) = max_retries
                  /\ outcome = attempts[max_retries].error_message

\* the first retry attempt raised an exception that is not retryable, and a
\* second attempt, with the strategy of that exception, has been made
C29_NonRetryableInsideWitness ==
    /\ agent = "enhanced"
    /\ Len(calls) = 3
    /\ calls[1].result = "MissingParam"
    /\ calls[2].result = "Shutdown"
    /\ "Shutdown" \notin RetryableErrors
    /\ retry_sequence.attempts[1].error_message = "Shutdown"
    /\ sleeps # <<>>
    /\ retry_sequence.recovery_strategies_used
          = <<"parameter_completion", "generic_simplification">>

\* C30: for each of the conservative strategy identifiers
\* (minimal_parameter_completion, simple_type_correction,
\* basic_format_correction, conservative_value_adjustment,
\* direct_enum_correction, ultra_minimal_guidance) the guidance message
\* appended to the retry state of EnhancedLLMAgent is the
\* generic_simplification template, filled with the attempt number and the
\* message of the error, followed by the context-optimization note,
\* whatever the category of the error: the template of the category is not
\* the one used.
C30_ConservativeGuidanceIsGeneric ==
    agent = "enhanced" =>
        \A j \in 2..Len(calls) :
            LET strategy == retry_sequence.recovery_strategies_used[j - 1]
                error == ErrorBefore(j - 1)
                guidance == Last(calls[j].messages)
                generic == 286 + Digits(j - 1) + Len(Str(error))
            IN  strategy \in {"minimal_parameter_completion",
                              "simple_type_correction",
                              "basic_format_correction",
                              "conservative_value_adjustment",
                              "direct_enum_correction",
                              "ultra_minimal_guidance"} =>
                    /\ guidance.role = "system"
                    /\ guidance.len = generic + 228
                    /\ guidance.err = 26 + Digits(j - 1)
                    /\ guidance.len
                          # TemplateLen(RecoveryStrategies[error])
                              + Digits(j - 1) + Len(Str(error)) + 228
                       \/ RecoveryStrategies[error] = "generic_simplification"

\* the guidance of simple_type_correction for "Expected int, got str": the
\* 286 characters of the generic template, 1 of the attempt number, 21 of
\* the error and 228 of the note
C30_GenericGuidanceWitness ==
    /\ agent = "enhanced"
    /\ Len(calls) >= 2
    /\ calls[1].result = "ExpectedInt"
    /\ retry_sequence.recovery_strategies_used[1] = "simple_type_correction"
    /\ Last(calls[2].messages).role = "system"
    /\ Last(calls[2].messages).len = 536

====
